---------------------------- MODULE Spec2Model ----------------------------
(***************************************************************************)
(* Query-safety gate, tool calls and schema cache of the Neo4j database    *)
(* agent.  Two packages of the repository define the tools:                *)
(*   "tools"  : src/neo4j_database_agent/tools.py                          *)
(*   "agents" : src/agents/agent.py                                        *)
(* A process imports one of them; `impl` says which.                       *)
(*                                                                         *)
(* Query texts are TLA+ strings (ASCII); upper(), lower(), strip(), the    *)
(* `in` substring test and str.count are computed character by character.  *)
(***************************************************************************)
EXTENDS Integers, Sequences, FiniteSets, TLC

VARIABLES
    impl,      \* which package's tools the process runs
    input,     \* arguments of the current standalone call (validator / tool)
    verdict,   \* result of _validate_query_safety for `input`, or "pending"
    tool,      \* the tool of the current sequential tool call, or "none"
    log,       \* events of the current tool call: validations, database sends
    result,    \* what the current tool call returned (or raised)
    _schema_cache, \* the module global: the cached schema, when present
    dbVersion, \* which content the database currently has
    pc,        \* per caller: where its schema-tool call stands
    loc,       \* per caller: the local variables of its call
    ret,       \* per caller: what its finished call returned or raised
    calls,     \* number of schema-tool calls started so far
    overlap,   \* some call started while another was in progress
    hist,      \* what the finished calls did to the cache, in summary
    conn,      \* the driver connections and sessions of the process
    qcall,     \* per caller: where its query-tool call stands
    message,   \* the text handed to the intent classifier
    intent,    \* what the classifier and the suggestion function answered
    agent,     \* which agent definition serves the conversation
    llm_request, \* the contents of the request the framework is building
    turn,      \* the state of the current turn of the conversation
    fn,        \* the helper function being applied, "none" when idle
    arg,       \* the argument the helper function was given
    out        \* what the helper function returned or raised

toolVars == <<input, verdict, tool, log, result>>
cacheVars == <<_schema_cache, dbVersion, pc, loc, ret, calls, overlap, hist>>
connVars == <<conn, qcall>>
secVars == <<message, intent, agent, llm_request, turn>>
pureVars == <<fn, arg, out>>
vars == <<impl, toolVars, cacheVars, connVars, secVars, pureVars>>

Impls == {"tools", "agents"}

(***************************************************************************)
(* Python string primitives                                                *)
(***************************************************************************)
LowerAlphabet == "abcdefghijklmnopqrstuvwxyz"
UpperAlphabet == "ABCDEFGHIJKLMNOPQRSTUVWXYZ"

CharAt(s, i) == SubSeq(s, i, i)

IndexIn(alphabet, c) == CHOOSE i \in 1..Len(alphabet) : CharAt(alphabet, i) = c

UpMap == [c \in {CharAt(LowerAlphabet, i) : i \in 1..Len(LowerAlphabet)} |->
             CharAt(UpperAlphabet, IndexIn(LowerAlphabet, c))]

LowMap == [c \in {CharAt(UpperAlphabet, i) : i \in 1..Len(UpperAlphabet)} |->
             CharAt(LowerAlphabet, IndexIn(UpperAlphabet, c))]

UpChar(c) == IF c \in DOMAIN UpMap THEN UpMap[c] ELSE c
LowChar(c) == IF c \in DOMAIN LowMap THEN LowMap[c] ELSE c

\* str.upper(), split in halves to keep the recursion shallow
RECURSIVE str_upper(_)
str_upper(s) ==
    IF Len(s) = 0 THEN ""
    ELSE IF Len(s) = 1 THEN UpChar(s)
    ELSE LET h == Len(s) \div 2
         IN  str_upper(SubSeq(s, 1, h)) \o str_upper(SubSeq(s, h + 1, Len(s)))

\* str.lower()
RECURSIVE str_lower(_)
str_lower(s) ==
    IF Len(s) = 0 THEN ""
    ELSE IF Len(s) = 1 THEN LowChar(s)
    ELSE LET h == Len(s) \div 2
         IN  str_lower(SubSeq(s, 1, h)) \o str_lower(SubSeq(s, h + 1, Len(s)))

Whitespace == {" ", "\n", "\t", "\r"}

\* str.strip(): drop leading and trailing whitespace
str_strip(s) ==
    LET IsWs(i) == CharAt(s, i) \in Whitespace
    IN  IF \A i \in 1..Len(s) : IsWs(i) THEN ""
        ELSE LET lo == CHOOSE i \in 1..Len(s) :
                           ~ IsWs(i) /\ \A j \in 1..(i - 1) : IsWs(j)
                 hi == CHOOSE i \in 1..Len(s) :
                           ~ IsWs(i) /\ \A j \in (i + 1)..Len(s) : IsWs(j)
             IN  SubSeq(s, lo, hi)

\* `k in s`
str_in(k, s) ==
    \E i \in 1..(Len(s) - Len(k) + 1) : SubSeq(s, i, i + Len(k) - 1) = k

\* s.count(k): non-overlapping occurrences, scanning from the left;
\* `hits` are the positions where k occurs, `from` the scan position
RECURSIVE CountFrom(_, _, _)
CountFrom(hits, width, from) ==
    LET ahead == {i \in hits : i >= from}
    IN  IF ahead = {} THEN 0
        ELSE LET first == CHOOSE i \in ahead : \A j \in ahead : i <= j
             IN  1 + CountFrom(hits, width, first + width)

str_count(s, k) ==
    CountFrom({i \in 1..(Len(s) - Len(k) + 1) : SubSeq(s, i, i + Len(k) - 1) = k},
              Len(k), 1)

(***************************************************************************)
(* _validate_query_safety                                                  *)
(***************************************************************************)
write_keywords ==
    <<"CREATE", "MERGE", "SET", "DELETE", "REMOVE", "DROP",
      "DETACH DELETE", "FOREACH", "LOAD CSV">>

dangerous_procedures ==
    <<"apoc.create", "apoc.merge", "apoc.refactor", "apoc.periodic.commit",
      "db.create", "db.drop", "dbms.security">>

\* only neo4j_database_agent/tools.py has this second list
schema_procedures ==
    <<"db.labels", "db.relationshipTypes", "db.schema", "db.propertyKeys",
      "db.constraints", "db.indexes", "apoc.meta">>

ComplexityLimit == 10

Range(seq) == {seq[i] : i \in DOMAIN seq}

\* the keyword loop stops one entry short
NoWriteKeyword_SkipsLast(query_upper) ==
    \A i \in 1..(Len(write_keywords) - 1) : ~ str_in(write_keywords[i], query_upper)

NoWriteKeyword(query_upper) ==
    \A keyword \in Range(write_keywords) : ~ str_in(keyword, query_upper)

\* the procedure lists are consulted without the CALL test
NoDeniedProcedure_NoCallTest(im, cypher_query, query_upper) ==
    LET query_lower == str_lower(cypher_query)
    IN  /\ ~ \E proc \in Range(dangerous_procedures) : str_in(proc, query_lower)
        /\ \/ im = "agents"
           \/ ~ \E proc \in Range(schema_procedures) : str_in(proc, query_lower)

NoDeniedProcedure(im, cypher_query, query_upper) ==
    IF str_in("CALL", query_upper)
    THEN LET query_lower == str_lower(cypher_query)
         IN  /\ ~ \E proc \in Range(dangerous_procedures) : str_in(proc, query_lower)
             /\ \/ im = "agents"
                \/ ~ \E proc \in Range(schema_procedures) : str_in(proc, query_lower)
    ELSE TRUE

\* ">=" in place of ">"
WithinComplexity_OffByOne(query_upper) ==
    ~ (str_count(query_upper, "MATCH") >= ComplexityLimit)

WithinComplexity(query_upper) ==
    ~ (str_count(query_upper, "MATCH") > ComplexityLimit)

\* cypher_query is a str, as annotated; "" is the falsy one
_validate_query_safety(im, cypher_query) ==
    IF cypher_query = "" THEN FALSE
    ELSE LET query_upper == str_strip(str_upper(cypher_query))
         IN  /\ NoWriteKeyword(query_upper)
             /\ NoDeniedProcedure(im, cypher_query, query_upper)
             /\ WithinComplexity(query_upper)


(***************************************************************************)
(* Query strings handed to the validator and to the query tools            *)
(*   text = casing( MatchClause * reps  \o  payload  \o  suffix )          *)
(***************************************************************************)
MatchClause == "MATCH (n) "

\* how far past the complexity limit the MATCH count of an input goes
MaxExcess == 2

MatchReps == {0, 1, 2} \cup ((ComplexityLimit - 1)..(ComplexityLimit + MaxExcess))

\* kind "read": only MATCH / RETURN / WHERE / WITH / ORDER BY / LIMIT clauses
Payloads ==
    << [kind |-> "read",  text |-> ""],
       [kind |-> "read",  text |-> "WHERE n.age > 1 "],
       [kind |-> "read",  text |-> "WITH n ORDER BY n.name LIMIT 10 "],
       [kind |-> "read",  text |-> "WHERE n.created > 1 "],
       [kind |-> "read",  text |-> "WITH n.offset AS o "],
       [kind |-> "read",  text |-> "MATCH (c:CallLog) "],
       [kind |-> "read",  text |-> "WHERE n.src = 'apoc.meta' "],
       [kind |-> "read",  text |-> "MATCH (c:CallLog) WHERE c.src = 'db.schema' "],
       [kind |-> "write", text |-> "CREATE (m:Person) "],
       [kind |-> "write", text |-> "MERGE (m:Person) "],
       [kind |-> "write", text |-> "SET n.age = 2 "],
       [kind |-> "write", text |-> "DELETE n "],
       [kind |-> "write", text |-> "REMOVE n.age "],
       [kind |-> "write", text |-> "DROP INDEX idx "],
       [kind |-> "write", text |-> "DETACH DELETE n "],
       [kind |-> "write", text |-> "FOREACH (x IN xs | x) "],
       [kind |-> "write", text |-> "LOAD CSV FROM 'f.csv' AS row "],
       [kind |-> "call",  text |-> "CALL apoc.create.node() "],
       [kind |-> "call",  text |-> "CALL apoc.merge.node() "],
       [kind |-> "call",  text |-> "CALL apoc.refactor.rename.label() "],
       [kind |-> "call",  text |-> "CALL apoc.periodic.commit() "],
       [kind |-> "call",  text |-> "CALL db.createLabel() "],
       [kind |-> "call",  text |-> "CALL db.drop() "],
       [kind |-> "call",  text |-> "CALL dbms.security.listUsers() "],
       [kind |-> "call",  text |-> "CALL db.labels() "],
       [kind |-> "call",  text |-> "CALL db.relationshipTypes() "],
       [kind |-> "call",  text |-> "CALL db.schema.visualization() "],
       [kind |-> "call",  text |-> "CALL db.propertyKeys() "],
       [kind |-> "call",  text |-> "CALL db.constraints() "],
       [kind |-> "call",  text |-> "CALL db.indexes() "],
       [kind |-> "call",  text |-> "CALL apoc.meta.data() "],
       [kind |-> "call",  text |-> "CALL dbms.components() "] >>

Suffixes == {"", "RETURN n LIMIT 10"}

Casings == {"asis", "upper", "lower", "mixed"}

RECURSIVE Repeat(_, _)
Repeat(s, n) ==
    IF n = 0 THEN ""
    ELSE IF n % 2 = 0 THEN LET half == Repeat(s, n \div 2) IN half \o half
    ELSE s \o Repeat(s, n - 1)

\* letters alternately upper and lower case, by position
RECURSIVE MixedCase(_, _)
MixedCase(s, off) ==
    IF Len(s) = 0 THEN ""
    ELSE IF Len(s) = 1 THEN (IF off % 2 = 0 THEN UpChar(s) ELSE LowChar(s))
    ELSE LET h == Len(s) \div 2
         IN  MixedCase(SubSeq(s, 1, h), off) \o
             MixedCase(SubSeq(s, h + 1, Len(s)), off + h)

ApplyCasing(c, s) ==
    CASE c = "asis"  -> s
      [] c = "upper" -> str_upper(s)
      [] c = "lower" -> str_lower(s)
      [] c = "mixed" -> MixedCase(s, 0)

QueryInputs ==
    [reps : MatchReps, payload : DOMAIN Payloads, suffix : Suffixes, casing : Casings]

QueryText(in) ==
    ApplyCasing(in.casing,
                Repeat(MatchClause, in.reps) \o Payloads[in.payload].text \o in.suffix)

NoInput == [reps |-> 0, payload |-> 1, suffix |-> "", casing |-> "asis"]
NoResult == [kind |-> "none"]

(***************************************************************************)
(* The schema cache and the database it is discovered from                 *)
(***************************************************************************)
\* the threads of the process that call the schema tools
Callers == {1, 2}

\* calls of the schema tools a behaviour may start
MaxCalls == 4

DbVersions == {1, 2}

\* CALL db.labels(): version 2 adds a label that no node carries yet
DbLabels(v) == IF v = 1 THEN <<"Person", "Movie">> ELSE <<"Person", "Movie", "Genre">>

\* CALL db.relationshipTypes()
DbRelationships(v) == IF v = 1 THEN <<"ACTED_IN">> ELSE <<"ACTED_IN", "IN_GENRE">>

\* MATCH (n:label) RETURN n LIMIT 1 finds a node
HasNodes(v, label) == label \in {"Person", "Movie"}

\* the keys of the sampled node
NodeKeys(label) == IF label = "Person" THEN <<"name", "born">> ELSE <<"title">>

NoSchema == [labels |-> <<>>, relationships |-> <<>>, node_properties |-> <<>>]
EmptyCache == [present |-> FALSE, schema |-> NoSchema]

NoAnswer == [ok |-> FALSE, value |-> <<>>]
\* kind, schema: the last finished call that read or wrote the cache;
\* clean: a refresh has returned and no get call has begun since;
\* raced: the schema in the cache was stored by a call during which a
\*        refresh returned
\* stored: the schema_info of the store that came last
NoHist == [kind |-> "fresh", schema |-> NoSchema, clean |-> FALSE, raced |-> FALSE,
           stored |-> NoSchema]

\* the local variables of a call; seen, queries, failed, raced and
\* hit_after_refresh record its history
Loc0 == [labels_result |-> NoAnswer, rels_result |-> NoAnswer, schema_info |-> NoSchema,
         idx |-> 0, queries |-> 0, failed |-> {}, seen |-> NoHist,
         raced |-> FALSE, hit_after_refresh |-> FALSE]
NoRet == [op |-> "none", kind |-> "none", status |-> "none", schema |-> NoSchema,
          seen |-> NoHist, queries |-> 0, failed |-> {},
          raced |-> FALSE, hit_after_refresh |-> FALSE]

InitCacheVars ==
    /\ _schema_cache = EmptyCache
    /\ dbVersion = 1
    /\ pc = [c \in Callers |-> "idle"]
    /\ loc = [c \in Callers |-> Loc0]
    /\ ret = [c \in Callers |-> NoRet]
    /\ calls = 0
    /\ overlap = FALSE
    /\ hist = NoHist

(***************************************************************************)
(* Driver connections: the state _execute_query works on                   *)
(***************************************************************************)
\* driver connections a behaviour may open
MaxDrivers == 3

NoConn == [open_drivers |-> {}, open_sessions |-> {}, opened |-> {}]

\* the local state of one query-tool call
NoQCall == [pc |-> "idle", tool |-> "none", in |-> NoInput, driver |-> 0, fresh |-> TRUE,
            sends |-> 0, outcome |-> "none", cause |-> "none",
            json |-> [kind |-> "none", text |-> ""], ret |-> NoResult]

InitConnVars ==
    /\ conn = NoConn
    /\ qcall = [c \in Callers |-> NoQCall]

(***************************************************************************)
(* The conversation: state of the intent classifier and of a turn          *)
(***************************************************************************)
NoIntent == [destructive |-> FALSE, suggestion |-> "", done |-> FALSE]
NoTurn == [phase |-> "none"]

InitSecVars ==
    /\ message = ""
    /\ intent = NoIntent
    /\ agent = "none"
    /\ llm_request = <<>>
    /\ turn = NoTurn

(***************************************************************************)
(* The helper functions (formatters, serializer, validators) applied to    *)
(* one argument at a time                                                  *)
(***************************************************************************)
NoArg == [kind |-> "none"]
NoOut == [kind |-> "none"]

InitPureVars ==
    /\ fn = "none"
    /\ arg = NoArg
    /\ out = NoOut

(***************************************************************************)
(* The validator applied to one query                                      *)
(***************************************************************************)
InitValidate ==
    /\ impl \in Impls
    /\ input \in QueryInputs
    /\ verdict = "pending"
    /\ tool = "none"
    /\ log = <<>>
    /\ result = NoResult
    /\ InitCacheVars
    /\ InitConnVars
    /\ InitSecVars
    /\ InitPureVars

Validate ==
    /\ verdict = "pending"
    /\ verdict' = IF _validate_query_safety(impl, QueryText(input))
                  THEN "safe" ELSE "unsafe"
    /\ UNCHANGED <<impl, input, tool, log, result, cacheVars, connVars, secVars, pureVars>>

NextValidate == Validate

SpecValidate == InitValidate /\ [][NextValidate]_vars


(***************************************************************************)
(* _execute_query and the two query tools                                  *)
(*                                                                         *)
(* The database answers a query with rows, with no row, or the driver      *)
(* raises (connectivity, syntax, permission, conversion).  The records and *)
(* the exception text are opaque: "<records>", "<e>".                      *)
(***************************************************************************)
DbOutcomes == {"rows", "empty", "error"}

\* json.dumps of what _execute_query returns, with the shape json.loads gives back
_execute_query(im, query, outcome) ==
    CASE outcome = "rows"  -> [kind |-> "list", text |-> "[\n  <records>\n]"]
      [] outcome = "empty" -> [kind |-> "emptylist", text |-> "[]"]
      [] outcome = "error" ->
            [kind |-> "errordict",
             text |-> IF im = "tools"
                      THEN "{\"error\": \"Database connection failed: <e>. " \o
                           "Please check your Neo4j connection settings.\"}"
                      ELSE "{\"error\": \"<e>\"}"]

ValidateEvent(query, ok) == [ev |-> "validate", query |-> query, ok |-> ok]
ExecuteEvent(query) == [ev |-> "execute", query |-> query]

Returned(events, text) == [log |-> events, ret |-> [kind |-> "returned", text |-> text]]

schema_hints == <<"db.labels", "db.relationshiptypes", "db.schema", "db.propertykeys", "apoc.meta">>

\* the "blocked" reply of execute_cypher_query
BlockedReply(im, cypher_query) ==
    IF /\ im = "tools"
       /\ \E schema_proc \in Range(schema_hints) : str_in(schema_proc, str_lower(cypher_query))
    THEN "{\"error\": \"Direct schema queries are not allowed. " \o
         "Please describe what data you're looking for instead.\", " \o
         "\"suggestion\": \"For example: 'Show me all customers' or " \o
         "'What types of relationships exist between customers and orders?'\"}"
    ELSE "{\"error\": \"Only read-only queries are allowed. " \o
         "Write operations are blocked for safety.\", " \o
         "\"suggestion\": \"Use MATCH and RETURN statements for querying data.\"}"

\* the run `r` with event `e` before it
After(e, r) == [log |-> <<e>> \o r.log, ret |-> r.ret]

\* execute_cypher_query once the gate is passed
RunCypherQuery(im, cypher_query, outcome) ==
    LET json_results == _execute_query(im, cypher_query, outcome)
        events == <<ExecuteEvent(cypher_query)>>
    IN  IF im = "agents" THEN Returned(events, json_results.text)
        ELSE CASE json_results.kind = "errordict" -> Returned(events, json_results.text)
               [] json_results.kind = "list" ->
                     Returned(events,
                        "{\n  \"data\": " \o json_results.text \o ",\n" \o
                        "  \"message\": \"Query executed successfully. " \o
                        "Data is ready for visualization.\",\n" \o
                        "  \"instructions\": \"Convert this data to a pandas DataFrame " \o
                        "using: df = pd.DataFrame(data['data'])\"\n}")
               [] OTHER ->
                     Returned(events, "{\"data\": [], \"message\": \"No results found.\"}")

\* the gate's answer is ignored
execute_cypher_query_Ungated(im, cypher_query, outcome) ==
    RunCypherQuery(im, cypher_query, outcome)

execute_cypher_query(im, cypher_query, outcome) ==
    IF ~ _validate_query_safety(im, cypher_query)
    THEN Returned(<<ValidateEvent(cypher_query, FALSE)>>, BlockedReply(im, cypher_query))
    ELSE After(ValidateEvent(cypher_query, TRUE), RunCypherQuery(im, cypher_query, outcome))

\* execute_advanced_aggregation once the gate is passed
RunAggregation(cypher_query, outcome) ==
    LET json_results == _execute_query("tools", cypher_query, outcome)
        events == <<ExecuteEvent(cypher_query)>>
    IN  CASE json_results.kind = "errordict" -> Returned(events, json_results.text)
          [] json_results.kind = "list" -> Returned(events, "Query Results:\n<table>")
          [] OTHER -> Returned(events, "No results found.")

\* the query is run first and the gate consulted afterwards
execute_advanced_aggregation_RunsFirst(cypher_query, outcome) ==
    LET run == RunAggregation(cypher_query, outcome)
    IN  IF ~ _validate_query_safety("tools", cypher_query)
        THEN Returned(run.log \o <<ValidateEvent(cypher_query, FALSE)>>,
                "{\"error\": \"Only read-only queries are allowed.\", " \o
                "\"suggestion\": \"Use MATCH and RETURN statements for querying data.\"}")
        ELSE [log |-> run.log \o <<ValidateEvent(cypher_query, TRUE)>>, ret |-> run.ret]

execute_advanced_aggregation(cypher_query, outcome) ==
    IF ~ _validate_query_safety("tools", cypher_query)
    THEN Returned(<<ValidateEvent(cypher_query, FALSE)>>,
            "{\"error\": \"Only read-only queries are allowed.\", " \o
            "\"suggestion\": \"Use MATCH and RETURN statements for querying data.\"}")
    ELSE After(ValidateEvent(cypher_query, TRUE), RunAggregation(cypher_query, outcome))

(***************************************************************************)
(* Graph-analytics helpers: query builders on top of execute_cypher_query  *)
(***************************************************************************)
\* position of the first occurrence of the one-character string c in s, 0 if none
str_find(s, c) ==
    LET hits == {i \in 1..Len(s) : CharAt(s, i) = c}
    IN  IF hits = {} THEN 0 ELSE CHOOSE i \in hits : \A j \in hits : i <= j

\* int(t): the value of a decimal numeral with an optional sign
RECURSIVE DecimalValue(_)
DecimalValue(t) ==
    IF t = "" THEN 0
    ELSE IF CharAt(t, 1) = "-" THEN 0 - DecimalValue(SubSeq(t, 2, Len(t)))
    ELSE 10 * DecimalValue(SubSeq(t, 1, Len(t) - 1)) + (IndexIn("0123456789", CharAt(t, Len(t))) - 1)

\* the positions of s at which k occurs
OccurrencesOf(s, k) == {i \in 1..(Len(s) - Len(k) + 1) : SubSeq(s, i, i + Len(k) - 1) = k}

str_startswith(s, prefix) ==
    Len(s) >= Len(prefix) /\ SubSeq(s, 1, Len(prefix)) = prefix

\* s.split(c) for a one-character separator
RECURSIVE str_split(_, _)
str_split(s, c) ==
    LET i == str_find(s, c)
    IN  IF i = 0 THEN <<s>>
        ELSE <<SubSeq(s, 1, i - 1)>> \o str_split(SubSeq(s, i + 1, Len(s)), c)

\* sep.join(parts)
RECURSIVE str_join(_, _)
str_join(sep, parts) ==
    IF Len(parts) = 0 THEN ""
    ELSE IF Len(parts) = 1 THEN parts[1]
    ELSE parts[1] \o sep \o str_join(sep, Tail(parts))

\* s.split(':', 1)
SplitOnce(s) ==
    LET i == str_find(s, ":")
    IN  <<SubSeq(s, 1, i - 1), SubSeq(s, i + 1, Len(s))>>

IsLetter(c) == c \in DOMAIN UpMap \/ c \in DOMAIN LowMap

\* str.title(): a letter is upper case exactly when no letter precedes it
RECURSIVE TitleFrom(_, _)
TitleFrom(s, i) ==
    IF i > Len(s) THEN ""
    ELSE (IF i > 1 /\ IsLetter(CharAt(s, i - 1))
          THEN LowChar(CharAt(s, i)) ELSE UpChar(CharAt(s, i))) \o TitleFrom(s, i + 1)

str_title(s) == TitleFrom(s, 1)

\* the caller's value is used as given
Min_Uncapped(a, b) == a

Min(a, b) == IF a < b THEN a ELSE b

MaxHopsCap == 5

\* analyze_graph_paths: f-string at line 456
shortest_path_query(start_pattern, rel_pattern, end_pattern) ==
    "\n" \o
    "    MATCH path = shortestPath(" \o
    start_pattern \o
    "-" \o
    rel_pattern \o
    "-" \o
    end_pattern \o
    ")\n" \o
    "    RETURN length(path) as path_length,\n" \o
    "           [n in nodes(path) | labels(n)[0] + ':' + coalesce(n.name, n.id, toString(id(n)))] as nodes,\n" \o
    "           [r in relationships(path) | type(r)] as relationships\n" \o
    "    "

\* analyze_graph_paths: f-string at line 468
all_paths_query(start_pattern, rel_pattern, end_pattern) ==
    "\n" \o
    "        MATCH path = " \o
    start_pattern \o
    "-" \o
    rel_pattern \o
    "-" \o
    end_pattern \o
    "\n" \o
    "        WITH path, length(path) as path_length\n" \o
    "        ORDER BY path_length\n" \o
    "        LIMIT 5\n" \o
    "        RETURN path_length,\n" \o
    "               [n in nodes(path) | labels(n)[0] + ':' + coalesce(n.name, n.id, toString(id(n)))] as nodes,\n" \o
    "               [r in relationships(path) | type(r)] as relationships\n" \o
    "        "

\* calculate_node_centrality: f-string at line 511
degree_query(node_pattern, limit) ==
    "\n" \o
    "        MATCH " \o
    node_pattern \o
    "\n" \o
    "        WITH n, size((n)--()) as degree\n" \o
    "        ORDER BY degree DESC\n" \o
    "        LIMIT " \o
    limit \o
    "\n" \o
    "        RETURN labels(n)[0] as node_type, \n" \o
    "               coalesce(n.name, n.id, toString(id(n))) as node_identifier,\n" \o
    "               degree as centrality_score\n" \o
    "        "

\* calculate_node_centrality: f-string at line 521
in_degree_query(node_pattern, limit) ==
    "\n" \o
    "        MATCH " \o
    node_pattern \o
    "\n" \o
    "        WITH n, size((n)<--()) as in_degree\n" \o
    "        ORDER BY in_degree DESC\n" \o
    "        LIMIT " \o
    limit \o
    "\n" \o
    "        RETURN labels(n)[0] as node_type,\n" \o
    "               coalesce(n.name, n.id, toString(id(n))) as node_identifier,\n" \o
    "               in_degree as centrality_score\n" \o
    "        "

\* calculate_node_centrality: f-string at line 531
out_degree_query(node_pattern, limit) ==
    "\n" \o
    "        MATCH " \o
    node_pattern \o
    "\n" \o
    "        WITH n, size((n)-->()) as out_degree\n" \o
    "        ORDER BY out_degree DESC\n" \o
    "        LIMIT " \o
    limit \o
    "\n" \o
    "        RETURN labels(n)[0] as node_type,\n" \o
    "               coalesce(n.name, n.id, toString(id(n))) as node_identifier,\n" \o
    "               out_degree as centrality_score\n" \o
    "        "

\* calculate_node_centrality: f-string at line 542
betweenness_query(node_pattern, limit) ==
    "\n" \o
    "        MATCH " \o
    node_pattern \o
    "\n" \o
    "        WITH n\n" \o
    "        MATCH path = (a)-[*1..3]-(b)\n" \o
    "        WHERE a <> b AND n IN nodes(path)[1..-1]\n" \o
    "        WITH n, count(DISTINCT path) as path_count\n" \o
    "        ORDER BY path_count DESC\n" \o
    "        LIMIT " \o
    limit \o
    "\n" \o
    "        RETURN labels(n)[0] as node_type,\n" \o
    "               coalesce(n.name, n.id, toString(id(n))) as node_identifier,\n" \o
    "               path_count as centrality_score\n" \o
    "        "

\* calculate_node_centrality: f-string at line 556
pagerank_query(node_pattern, limit) ==
    "\n" \o
    "        MATCH " \o
    node_pattern \o
    "\n" \o
    "        WITH n\n" \o
    "        MATCH (n)<-[r]-(m)\n" \o
    "        WITH n, count(DISTINCT m) as incoming_count, \n" \o
    "             sum(size((m)-->())) as neighbor_connections\n" \o
    "        WITH n, incoming_count * 1.0 / (1 + neighbor_connections) as pagerank_estimate\n" \o
    "        ORDER BY pagerank_estimate DESC\n" \o
    "        LIMIT " \o
    limit \o
    "\n" \o
    "        RETURN labels(n)[0] as node_type,\n" \o
    "               coalesce(n.name, n.id, toString(id(n))) as node_identifier,\n" \o
    "               round(pagerank_estimate, 4) as centrality_score\n" \o
    "        "

\* detect_communities: f-string at line 605
triangle_query(node_pattern, min_community_size) ==
    "\n" \o
    "    // Find nodes that form triangles (basic community structure)\n" \o
    "    MATCH " \o
    node_pattern \o
    "-[r1]-(m)-[r2]-(o)-[r3]-(n)\n" \o
    "    WHERE id(n) < id(m) AND id(m) < id(o)\n" \o
    "    WITH n, m, o, count(*) as triangle_count\n" \o
    "    \n" \o
    "    // Group nodes that share triangles\n" \o
    "    WITH collect(DISTINCT n) + collect(DISTINCT m) + collect(DISTINCT o) as community_nodes\n" \o
    "    UNWIND community_nodes as node\n" \o
    "    WITH DISTINCT node\n" \o
    "    \n" \o
    "    // Find all nodes connected to our triangle nodes\n" \o
    "    MATCH (node)-[*1..2]-(connected)\n" \o
    "    WITH node, collect(DISTINCT connected) as extended_community\n" \o
    "    \n" \o
    "    // Create community groups\n" \o
    "    WITH collect({anchor: node, members: extended_community}) as communities\n" \o
    "    UNWIND communities as community\n" \o
    "    WITH community.anchor as anchor, \n" \o
    "         [n in community.members | n] as members\n" \o
    "    WHERE size(members) >= " \o
    min_community_size \o
    "\n" \o
    "    \n" \o
    "    // Analyze each community\n" \o
    "    WITH anchor, members, size(members) as community_size\n" \o
    "    ORDER BY community_size DESC\n" \o
    "    LIMIT 10\n" \o
    "    \n" \o
    "    // Get community details\n" \o
    "    UNWIND members as member\n" \o
    "    WITH anchor, community_size,\n" \o
    "         collect(DISTINCT labels(member)[0]) as node_types,\n" \o
    "         count(DISTINCT member) as actual_size,\n" \o
    "         collect(DISTINCT coalesce(member.name, member.id, toString(id(member))))[..5] as sample_members\n" \o
    "    \n" \o
    "    RETURN labels(anchor)[0] + ':' + coalesce(anchor.name, anchor.id, toString(id(anchor))) as community_anchor,\n" \o
    "           actual_size as community_size,\n" \o
    "           node_types,\n" \o
    "           sample_members + CASE WHEN actual_size > 5 THEN ['...'] ELSE [] END as members_sample\n" \o
    "    "

\* detect_communities: f-string at line 651
simpler_query(node_pattern, min_community_size) ==
    "\n" \o
    "        MATCH " \o
    node_pattern \o
    "\n" \o
    "        WITH n, size((n)--()) as degree\n" \o
    "        WHERE degree >= 3\n" \o
    "        ORDER BY degree DESC\n" \o
    "        LIMIT 20\n" \o
    "        \n" \o
    "        // For each highly connected node, find its neighborhood\n" \o
    "        MATCH (n)-[]-(neighbor)\n" \o
    "        WITH n, collect(DISTINCT neighbor) as neighbors, degree\n" \o
    "        WHERE size(neighbors) >= " \o
    min_community_size \o
    "\n" \o
    "        \n" \o
    "        // Check connectivity within neighborhood\n" \o
    "        UNWIND neighbors as n1\n" \o
    "        UNWIND neighbors as n2\n" \o
    "        WHERE id(n1) < id(n2)\n" \o
    "        MATCH (n1)-[]-(n2)\n" \o
    "        WITH n, neighbors, degree, count(*) as internal_connections\n" \o
    "        \n" \o
    "        // Calculate density\n" \o
    "        WITH n, neighbors, degree, internal_connections,\n" \o
    "             2.0 * internal_connections / (size(neighbors) * (size(neighbors) - 1)) as density\n" \o
    "        WHERE density > 0.3  // At least 30% connected\n" \o
    "        \n" \o
    "        RETURN labels(n)[0] + ':' + coalesce(n.name, n.id, toString(id(n))) as community_center,\n" \o
    "               size(neighbors) as community_size,\n" \o
    "               round(density, 2) as connectivity_density,\n" \o
    "               [neighbor in neighbors | coalesce(neighbor.name, neighbor.id, toString(id(neighbor)))][..5] as members_sample\n" \o
    "        ORDER BY community_size DESC\n" \o
    "        LIMIT 10\n" \o
    "        "

\* find_similar_nodes: f-string at line 731
properties_query(ref_pattern, label_filter, limit) ==
    "\n" \o
    "        MATCH " \o
    ref_pattern \o
    " as ref\n" \o
    "        WITH ref, keys(ref) as ref_keys, [k in keys(ref) | {key: k, value: ref[k]}] as ref_props\n" \o
    "        \n" \o
    "        MATCH (n" \o
    label_filter \o
    ")\n" \o
    "        WHERE id(ref) <> id(n)\n" \o
    "        WITH ref, n, ref_props,\n" \o
    "             [k in keys(n) WHERE k in keys(ref) | {key: k, value: n[k]}] as n_props\n" \o
    "        \n" \o
    "        // Calculate similarity based on matching property values\n" \o
    "        WITH ref, n,\n" \o
    "             size([p in ref_props WHERE p in n_props]) as matching_props,\n" \o
    "             size(ref_props) as total_props\n" \o
    "        WHERE matching_props > 0\n" \o
    "        WITH n, matching_props * 1.0 / total_props as similarity\n" \o
    "        ORDER BY similarity DESC\n" \o
    "        LIMIT " \o
    limit \o
    "\n" \o
    "        \n" \o
    "        RETURN labels(n)[0] as node_type,\n" \o
    "               coalesce(n.name, n.id, toString(id(n))) as node_identifier,\n" \o
    "               round(similarity, 3) as similarity_score,\n" \o
    "               matching_props as matching_properties\n" \o
    "        "

\* find_similar_nodes: f-string at line 757
connections_query(ref_pattern, label_filter, limit) ==
    "\n" \o
    "        MATCH " \o
    ref_pattern \o
    " as ref\n" \o
    "        MATCH (ref)-[]-(ref_connected)\n" \o
    "        WITH ref, collect(DISTINCT id(ref_connected)) as ref_connections\n" \o
    "        \n" \o
    "        MATCH (n" \o
    label_filter \o
    ")\n" \o
    "        WHERE id(ref) <> id(n)\n" \o
    "        MATCH (n)-[]-(n_connected)\n" \o
    "        WITH ref, n, ref_connections, collect(DISTINCT id(n_connected)) as n_connections\n" \o
    "        \n" \o
    "        // Calculate Jaccard similarity\n" \o
    "        WITH n,\n" \o
    "             size([x in ref_connections WHERE x in n_connections]) as intersection,\n" \o
    "             size(ref_connections + n_connections) as union_size\n" \o
    "        WHERE intersection > 0\n" \o
    "        WITH n, intersection * 1.0 / union_size as similarity\n" \o
    "        ORDER BY similarity DESC\n" \o
    "        LIMIT " \o
    limit \o
    "\n" \o
    "        \n" \o
    "        RETURN labels(n)[0] as node_type,\n" \o
    "               coalesce(n.name, n.id, toString(id(n))) as node_identifier,\n" \o
    "               round(similarity, 3) as similarity_score,\n" \o
    "               intersection as shared_connections\n" \o
    "        "

\* find_similar_nodes: f-string at line 784
neighborhood_query(ref_pattern, label_filter, limit) ==
    "\n" \o
    "        MATCH " \o
    ref_pattern \o
    " as ref\n" \o
    "        MATCH (ref)-[*1..2]-(neighbor)\n" \o
    "        WITH ref, collect(DISTINCT id(neighbor)) as ref_neighborhood\n" \o
    "        \n" \o
    "        MATCH (n" \o
    label_filter \o
    ")\n" \o
    "        WHERE id(ref) <> id(n)\n" \o
    "        MATCH (n)-[*1..2]-(n_neighbor)\n" \o
    "        WITH ref, n, ref_neighborhood, collect(DISTINCT id(n_neighbor)) as n_neighborhood\n" \o
    "        \n" \o
    "        // Calculate neighborhood overlap\n" \o
    "        WITH n,\n" \o
    "             size([x in ref_neighborhood WHERE x in n_neighborhood]) as common_neighbors,\n" \o
    "             size(ref_neighborhood) + size(n_neighborhood) as total_neighbors\n" \o
    "        WHERE common_neighbors > 0\n" \o
    "        WITH n, 2.0 * common_neighbors / total_neighbors as similarity\n" \o
    "        ORDER BY similarity DESC\n" \o
    "        LIMIT " \o
    limit \o
    "\n" \o
    "        \n" \o
    "        RETURN labels(n)[0] as node_type,\n" \o
    "               coalesce(n.name, n.id, toString(id(n))) as node_identifier,\n" \o
    "               round(similarity, 3) as similarity_score,\n" \o
    "               common_neighbors\n" \o
    "        "

\* parse_node_id of analyze_graph_paths
parse_node_id(node_id) ==
    IF str_in(":", node_id) /\ ~ str_startswith(node_id, "'")
    THEN LET p == SplitOnce(node_id)
         IN  "(" \o p[1] \o " {id: '" \o p[2] \o "'})"
    ELSE IF str_startswith(node_id, "id:")
    THEN "({id: '" \o SubSeq(node_id, 4, Len(node_id)) \o "'})"
    ELSE IF str_in(":", node_id) /\ str_in("'", node_id)
    THEN LET p == SplitOnce(node_id)
         IN  "({" \o p[1] \o ": " \o p[2] \o "})"
    ELSE "({id: '" \o node_id \o "'})"

\* parse_node_id of find_similar_nodes: the pattern and the label ("" for None)
parse_reference_id(node_id) ==
    IF str_in(":", node_id) /\ ~ str_startswith(node_id, "'")
    THEN LET p == SplitOnce(node_id)
         IN  [pattern |-> "(" \o p[1] \o " {id: '" \o p[2] \o "'})", label |-> p[1]]
    ELSE IF str_in(":", node_id) /\ str_in("'", node_id)
    THEN LET p == SplitOnce(node_id)
         IN  [pattern |-> "({" \o p[1] \o ": " \o p[2] \o "})", label |-> ""]
    ELSE [pattern |-> "({id: '" \o node_id \o "'})", label |-> ""]

rel_pattern_of(relationship_types, max_hops) ==
    IF relationship_types # "" /\ str_strip(relationship_types) # ""
    THEN "[r:" \o str_join("/", str_split(relationship_types, ",")) \o
         "*1.." \o ToString(max_hops) \o "]"
    ELSE "[*1.." \o ToString(max_hops) \o "]"

node_pattern_of(node_label) ==
    IF node_label # "" /\ str_strip(node_label) # ""
    THEN "(n:" \o node_label \o ")" ELSE "(n)"

analyze_graph_paths(start_node_id, end_node_id, max_hops_arg, relationship_types, o1, o2) ==
    LET max_hops == Min(max_hops_arg, MaxHopsCap)
        rel_pattern == rel_pattern_of(relationship_types, max_hops)
        start_pattern == parse_node_id(start_node_id)
        end_pattern == parse_node_id(end_node_id)
        first == execute_cypher_query("tools",
                    shortest_path_query(start_pattern, rel_pattern, end_pattern), o1)
    IN  IF ~ str_in("No results found", first.ret.text) /\ max_hops > 1
        THEN LET second == execute_cypher_query("tools",
                              all_paths_query(start_pattern, rel_pattern, end_pattern), o2)
             IN  Returned(first.log \o second.log,
                    "**Shortest Path:**\n" \o first.ret.text \o
                    "\n\n**Alternative Paths (up to 5):**\n" \o second.ret.text)
        ELSE first

CentralityTypes == {"degree", "in_degree", "out_degree", "betweenness", "pagerank"}

centrality_query(centrality_type, node_pattern, limit) ==
    CASE centrality_type = "degree"      -> degree_query(node_pattern, limit)
      [] centrality_type = "in_degree"   -> in_degree_query(node_pattern, limit)
      [] centrality_type = "out_degree"  -> out_degree_query(node_pattern, limit)
      [] centrality_type = "betweenness" -> betweenness_query(node_pattern, limit)
      [] centrality_type = "pagerank"    -> pagerank_query(node_pattern, limit)

calculate_node_centrality(node_label, centrality_type, limit, o1) ==
    IF centrality_type \notin CentralityTypes
    THEN Returned(<<>>,
            "{\"error\": \"Unknown centrality type: " \o centrality_type \o "\", " \o
            "\"suggestion\": \"Use one of: degree, in_degree, out_degree, betweenness, pagerank\"}")
    ELSE LET run == execute_cypher_query("tools",
                       centrality_query(centrality_type, node_pattern_of(node_label),
                                        ToString(limit)), o1)
         IN  IF str_in("Query Results:", run.ret.text)
             THEN Returned(run.log,
                     "**" \o str_title(centrality_type) \o " Centrality Analysis**\n\n" \o
                     run.ret.text \o
                     "\n\n*Higher scores indicate more central/important nodes in the network*")
             ELSE run

detect_communities(node_label, min_community_size, o1, o2) ==
    LET node_pattern == node_pattern_of(node_label)
        first == execute_cypher_query("tools",
                    triangle_query(node_pattern, ToString(min_community_size)), o1)
        retry == str_in("No results found", first.ret.text)
        second == execute_cypher_query("tools",
                    simpler_query(node_pattern, ToString(min_community_size)), o2)
        events == IF retry THEN first.log \o second.log ELSE first.log
        res == IF retry THEN second.ret.text ELSE first.ret.text
    IN  IF retry /\ str_in("Query Results:", res)
        THEN Returned(events,
                "**Community Detection Results**\n" \o
                "*Communities identified by highly connected central nodes*\n\n" \o res \o
                "\n\n*Density indicates how connected members are within the community (0-1)*")
        ELSE IF str_in("Query Results:", res)
        THEN Returned(events,
                "**Community Detection Results**\n" \o
                "*Communities identified by triangle patterns*\n\n" \o res \o
                "\n\n*Larger communities with diverse node types may indicate " \o
                "important graph structures*")
        ELSE Returned(events, res)

SimilarityTypes == {"properties", "connections", "neighborhood"}

similarity_query(similarity_type, ref_pattern, label_filter, limit) ==
    CASE similarity_type = "properties"   -> properties_query(ref_pattern, label_filter, limit)
      [] similarity_type = "connections"  -> connections_query(ref_pattern, label_filter, limit)
      [] similarity_type = "neighborhood" -> neighborhood_query(ref_pattern, label_filter, limit)

context_map(similarity_type) ==
    CASE similarity_type = "properties"   -> "Nodes with similar property values"
      [] similarity_type = "connections"  -> "Nodes connected to similar entities"
      [] similarity_type = "neighborhood" -> "Nodes in similar network neighborhoods"

find_similar_nodes(reference_node_id, node_label, similarity_type, limit, o1) ==
    LET ref == parse_reference_id(reference_node_id)
        search_label == IF node_label # "" /\ str_strip(node_label) # ""
                        THEN node_label ELSE ref.label
        label_filter == IF search_label # "" THEN ":" \o search_label ELSE ""
    IN  IF similarity_type \notin SimilarityTypes
        THEN Returned(<<>>,
                "{\"error\": \"Unknown similarity type: " \o similarity_type \o "\", " \o
                "\"suggestion\": \"Use one of: properties, connections, neighborhood\"}")
        ELSE LET run == execute_cypher_query("tools",
                           similarity_query(similarity_type, ref.pattern, label_filter,
                                            ToString(limit)), o1)
             IN  IF str_in("Query Results:", run.ret.text)
                 THEN Returned(run.log,
                         "**Similarity Analysis: " \o context_map(similarity_type) \o "**\n\n" \o
                         run.ret.text \o
                         "\n\n*Higher scores indicate greater similarity (0-1 scale)*")
                 ELSE run

(***************************************************************************)
(* One tool call at a time: the caller picks a tool and its arguments, the *)
(* database picks its answers, the whole handler runs.                     *)
(***************************************************************************)
ToolQueryInputs ==
    {in \in QueryInputs : in.reps \in {0, 1, ComplexityLimit + 1} /\ in.casing \in {"asis", "lower"}}

NodeIds == {"Customer:1", "name:'John'", "'a:b'", "42", "n) DETACH DELETE n //:1"}
NodeLabels == {"", " ", "Customer", "Customer) DELETE (n"}
HopArgs == {-1, 1, 3, 5, 6}
RelationshipTypeArgs == {"", " ", "KNOWS", "KNOWS,WORKS_WITH"}
LimitArgs == {10}
CommunitySizeArgs == {3}

InitTools ==
    /\ impl \in Impls
    /\ input = NoInput
    /\ verdict = "pending"
    /\ tool = "none"
    /\ log = <<>>
    /\ result = NoResult
    /\ InitCacheVars
    /\ InitConnVars
    /\ InitSecVars
    /\ InitPureVars

Finish(name, args, run) ==
    /\ tool' = name
    /\ input' = args
    /\ log' = run.log
    /\ result' = run.ret
    /\ UNCHANGED <<impl, verdict, cacheVars, connVars, secVars, pureVars>>

CallExecuteCypherQuery ==
    /\ tool = "none"
    /\ \E in \in ToolQueryInputs, o \in DbOutcomes :
          Finish("execute_cypher_query", in,
                 execute_cypher_query(impl, QueryText(in), o))

CallExecuteAdvancedAggregation ==
    /\ tool = "none"
    /\ impl = "tools"
    /\ \E in \in ToolQueryInputs, o \in DbOutcomes :
          Finish("execute_advanced_aggregation", in,
                 execute_advanced_aggregation(QueryText(in), o))

CallAnalyzeGraphPaths ==
    /\ tool = "none"
    /\ impl = "tools"
    /\ \E a \in NodeIds, b \in {"Customer:2", "42"}, h \in HopArgs,
          r \in RelationshipTypeArgs, o1 \in DbOutcomes, o2 \in DbOutcomes :
          Finish("analyze_graph_paths",
                 [start_node_id |-> a, end_node_id |-> b, max_hops |-> h,
                  relationship_types |-> r],
                 analyze_graph_paths(a, b, h, r, o1, o2))

CallCalculateNodeCentrality ==
    /\ tool = "none"
    /\ impl = "tools"
    /\ \E l \in NodeLabels, t \in CentralityTypes \cup {"closeness"},
          n \in LimitArgs, o1 \in DbOutcomes :
          Finish("calculate_node_centrality",
                 [node_label |-> l, centrality_type |-> t, limit |-> n],
                 calculate_node_centrality(l, t, n, o1))

CallDetectCommunities ==
    /\ tool = "none"
    /\ impl = "tools"
    /\ \E l \in NodeLabels, m \in CommunitySizeArgs, o1 \in DbOutcomes, o2 \in DbOutcomes :
          Finish("detect_communities",
                 [node_label |-> l, min_community_size |-> m],
                 detect_communities(l, m, o1, o2))

CallFindSimilarNodes ==
    /\ tool = "none"
    /\ impl = "tools"
    /\ \E a \in NodeIds, l \in NodeLabels, t \in SimilarityTypes \cup {"embedding"},
          n \in LimitArgs, o1 \in DbOutcomes :
          Finish("find_similar_nodes",
                 [reference_node_id |-> a, node_label |-> l, similarity_type |-> t,
                  limit |-> n],
                 find_similar_nodes(a, l, t, n, o1))

\* the call has returned to the framework; the next call starts from scratch
ToolReturn ==
    /\ tool # "none"
    /\ tool' = "none"
    /\ input' = NoInput
    /\ log' = <<>>
    /\ result' = NoResult
    /\ UNCHANGED <<impl, verdict, cacheVars, connVars, secVars, pureVars>>

NextTools ==
    \/ CallExecuteCypherQuery
    \/ CallExecuteAdvancedAggregation
    \/ CallAnalyzeGraphPaths
    \/ CallCalculateNodeCentrality
    \/ CallDetectCommunities
    \/ CallFindSimilarNodes
    \/ ToolReturn

SpecTools == InitTools /\ [][NextTools]_vars

(***************************************************************************)
(* The schema tools, one step per access to _schema_cache and per database *)
(* query.  Callers are threads of one process; a call interleaves with     *)
(* the calls of the other callers between any two steps.                   *)
(***************************************************************************)
QueryOutcomes == {"ok", "error"}

InProgress(c) == pc[c] \notin {"idle", "done"}

\* a call begins: its first step is its test of the cache
Begin(c) ==
    /\ pc[c] = "idle"
    /\ calls < MaxCalls
    /\ calls' = calls + 1
    /\ overlap' = (overlap \/ \E d \in Callers \ {c} : InProgress(d))

Answer(op, kind, status, schema, l) ==
    [op |-> op, kind |-> kind, status |-> status, schema |-> schema,
     seen |-> l.seen, queries |-> l.queries, failed |-> l.failed,
     raced |-> l.raced, hit_after_refresh |-> l.hit_after_refresh]

\* what a finished call leaves in the summary of finished calls
HistAfter(r) ==
    IF r.op = "get"
    THEN IF r.kind = "returned" /\ r.status \in {"cached", "not_cached"}
         THEN [kind |-> "got", schema |-> r.schema, clean |-> hist.clean,
               raced |-> IF r.status = "cached" THEN hist.raced ELSE r.raced,
               stored |-> IF r.status = "cached" THEN hist.stored ELSE r.schema]
         ELSE [hist EXCEPT !.kind = "get_failed", !.schema = NoSchema]
    ELSE IF r.op = "refresh" /\ r.kind = "returned"
         THEN [hist EXCEPT !.kind = "refreshed", !.schema = NoSchema, !.clean = TRUE,
                           !.raced = FALSE]
         ELSE hist

\* the call of c ends with r: returned value or raised exception
End(c, r) ==
    /\ pc' = [pc EXCEPT ![c] = "done"]
    /\ ret' = [ret EXCEPT ![c] = r]
    /\ hist' = HistAfter(r)
    /\ loc' = [d \in Callers |->
                 IF d = c THEN Loc0
                 ELSE IF r.op = "refresh" /\ r.kind = "returned" /\ InProgress(d)
                      THEN [loc[d] EXCEPT !.raced = TRUE]
                      ELSE loc[d]]

Goto(c, label, l) ==
    /\ pc' = [pc EXCEPT ![c] = label]
    /\ loc' = [loc EXCEPT ![c] = l]
    /\ UNCHANGED <<ret, hist>>

Started(c) == [Loc0 EXCEPT !.seen = hist]

----------------------------------------------------------------------------
\* check_schema_cache: if "schema" in _schema_cache
CheckTest(c) ==
    /\ Begin(c)
    /\ IF _schema_cache.present
       THEN Goto(c, "check_read", Started(c))
       ELSE End(c, Answer("check", "returned", "not_cached", NoSchema, Started(c)))
    /\ UNCHANGED <<_schema_cache, dbVersion>>

\* check_schema_cache: "schema": _schema_cache["schema"]
CheckRead(c) ==
    /\ pc[c] = "check_read"
    /\ IF _schema_cache.present
       THEN End(c, Answer("check", "returned", "cached", _schema_cache.schema, loc[c]))
       ELSE End(c, Answer("check", "raised", "KeyError", NoSchema, loc[c]))
    /\ UNCHANGED <<_schema_cache, dbVersion, calls, overlap>>

----------------------------------------------------------------------------
\* refresh_neo4j_schema: if "schema" in _schema_cache
RefreshTest(c) ==
    /\ Begin(c)
    /\ IF _schema_cache.present
       THEN Goto(c, "refresh_del", Started(c))
       ELSE End(c, Answer("refresh", "returned", "info", NoSchema, Started(c)))
    /\ UNCHANGED <<_schema_cache, dbVersion>>

\* a refresh that leaves the entry in place
DelSchema_Keeps(d) == d

\* del d["schema"]
DelSchema(d) == EmptyCache

\* refresh_neo4j_schema: del _schema_cache["schema"]
RefreshDel(c) ==
    /\ pc[c] = "refresh_del"
    /\ IF _schema_cache.present
       THEN /\ _schema_cache' = DelSchema(_schema_cache)
            /\ End(c, Answer("refresh", "returned", "success", NoSchema, loc[c]))
       ELSE /\ UNCHANGED _schema_cache
            /\ End(c, Answer("refresh", "raised", "KeyError", NoSchema, loc[c]))
    /\ UNCHANGED <<dbVersion, calls, overlap>>

----------------------------------------------------------------------------
\* what _execute_query gives get_neo4j_schema, parsed: the collected list
\* of the single row, or the error dict
Collected(outcome, list) ==
    IF outcome = "ok" THEN [ok |-> TRUE, value |-> list] ELSE NoAnswer

\* every query sent a second time
Asked_Twice(l) == [l EXCEPT !.queries = @ + 2]

\* one more call of _execute_query by this tool call
Asked(l) == [l EXCEPT !.queries = @ + 1]

\* get_neo4j_schema: if "schema" in _schema_cache
GetTest(c) ==
    /\ Begin(c)
    /\ pc' = [pc EXCEPT ![c] =
                IF _schema_cache.present THEN "get_read"
                ELSE IF impl = "tools" THEN "get_conn" ELSE "get_labels"]
    /\ loc' = [loc EXCEPT ![c] =
                [Started(c) EXCEPT !.hit_after_refresh = (hist.clean /\ _schema_cache.present)]]
    /\ hist' = [hist EXCEPT !.clean = FALSE]
    /\ UNCHANGED <<ret, _schema_cache, dbVersion>>

\* a cached branch that hands out an empty schema
cached_schema_Blank(d) == NoSchema

\* cached_schema = _schema_cache["schema"].copy()
cached_schema(d) == d.schema

\* get_neo4j_schema: the cached branch
GetRead(c) ==
    /\ pc[c] = "get_read"
    /\ IF _schema_cache.present
       THEN End(c, Answer("get", "returned", "cached", cached_schema(_schema_cache), loc[c]))
       ELSE End(c, Answer("get", "raised", "KeyError", NoSchema, loc[c]))
    /\ UNCHANGED <<_schema_cache, dbVersion, calls, overlap>>

\* tools.py only: connection_test = _execute_query("RETURN 1 as test")
GetConn(c) ==
    /\ pc[c] = "get_conn"
    /\ \E outcome \in QueryOutcomes :
          IF outcome = "error"
          THEN End(c, Answer("get", "returned", "error", NoSchema, Asked(loc[c])))
          ELSE Goto(c, "get_labels", Asked(loc[c]))
    /\ UNCHANGED <<_schema_cache, dbVersion, calls, overlap>>

\* labels_result = json.loads(_execute_query(labels_query))
GetLabels(c) ==
    /\ pc[c] = "get_labels"
    /\ \E outcome \in QueryOutcomes :
          Goto(c, "get_rels",
               [Asked(loc[c]) EXCEPT !.labels_result = Collected(outcome, DbLabels(dbVersion))])
    /\ UNCHANGED <<_schema_cache, dbVersion, calls, overlap>>

\* schema_info as first built from the two answers
schema_info_of(labels_result, rels_result) ==
    [labels |-> labels_result.value, relationships |-> rels_result.value,
     node_properties |-> <<>>]

\* rels_result = json.loads(_execute_query(rels_query)), then up to the loop
\*   tools.py : an error dict in labels_result is reported; one in
\*              rels_result is indexed with [0]
\*   agent.py : either error dict is indexed with [0]
GetRels(c) ==
    /\ pc[c] = "get_rels"
    /\ \E outcome \in QueryOutcomes :
          LET rels_result == Collected(outcome, DbRelationships(dbVersion))
              labels_result == loc[c].labels_result
              l == [Asked(loc[c]) EXCEPT
                      !.rels_result = rels_result,
                      !.schema_info = schema_info_of(labels_result, rels_result),
                      !.idx = 1]
          IN  IF ~labels_result.ok /\ impl = "tools"
              THEN End(c, Answer("get", "returned", "error", NoSchema, l))
              ELSE IF ~labels_result.ok \/ ~rels_result.ok
              THEN End(c, Answer("get", "raised", "KeyError", NoSchema, l))
              ELSE Goto(c, IF Len(labels_result.value) = 0 THEN "get_store" ELSE "get_sample", l)
    /\ UNCHANGED <<_schema_cache, dbVersion, calls, overlap>>

\* schema_info["node_properties"][label] = list(sample_result[0]["n"].keys())
WithProperties(schema_info, label, keys) ==
    [schema_info EXCEPT !.node_properties = Append(@, [label |-> label, keys |-> keys])]

\* one turn of the loop: the sample query of labels[idx]
\*   tools.py : if sample_result and "error" not in sample_result
\*   agent.py : if sample_result   (an error dict is indexed with [0])
GetSample(c) ==
    /\ pc[c] = "get_sample"
    /\ \E outcome \in QueryOutcomes :
          LET labels == loc[c].schema_info.labels
              label == labels[loc[c].idx]
              found == outcome = "ok" /\ HasNodes(dbVersion, label)
              l == [Asked(loc[c]) EXCEPT
                      !.schema_info = IF found THEN WithProperties(@, label, NodeKeys(label)) ELSE @,
                      !.failed = IF outcome = "error" THEN @ \cup {label} ELSE @,
                      !.idx = @ + 1]
          IN  IF outcome = "error" /\ impl = "agents"
              THEN End(c, Answer("get", "raised", "KeyError", NoSchema, l))
              ELSE Goto(c, IF loc[c].idx = Len(labels) THEN "get_store" ELSE "get_sample", l)
    /\ UNCHANGED <<_schema_cache, dbVersion, calls, overlap>>

\* a get that stores nothing
SetSchema_Dropped(d, schema_info) == d

\* a get that adds its property lists to the ones already stored
SetSchema_Merged(d, schema_info) ==
    [present |-> TRUE,
     schema |-> [schema_info EXCEPT !.node_properties = d.schema.node_properties \o @]]

\* d["schema"] = schema_info.copy()
SetSchema(d, schema_info) == [present |-> TRUE, schema |-> schema_info]

\* _schema_cache["schema"] = schema_info.copy(), and the return
GetStore(c) ==
    /\ pc[c] = "get_store"
    /\ _schema_cache' = SetSchema(_schema_cache, loc[c].schema_info)
    /\ End(c, Answer("get", "returned", "not_cached", loc[c].schema_info, loc[c]))
    /\ UNCHANGED <<dbVersion, calls, overlap>>

----------------------------------------------------------------------------
\* the caller takes the result of its call
Return(c) ==
    /\ pc[c] = "done"
    /\ pc' = [pc EXCEPT ![c] = "idle"]
    /\ ret' = [ret EXCEPT ![c] = NoRet]
    /\ UNCHANGED <<_schema_cache, dbVersion, loc, calls, overlap, hist>>

\* somebody else changes the content of the database
ChangeDb ==
    /\ dbVersion = 1
    /\ dbVersion' = 2
    /\ UNCHANGED <<_schema_cache, pc, loc, ret, calls, overlap, hist>>

InitCache ==
    /\ impl \in Impls
    /\ input = NoInput
    /\ verdict = "pending"
    /\ tool = "none"
    /\ log = <<>>
    /\ result = NoResult
    /\ InitCacheVars
    /\ InitConnVars
    /\ InitSecVars
    /\ InitPureVars

NextCache ==
    \/ \E c \in Callers : CheckTest(c) /\ UNCHANGED <<impl, toolVars, connVars, secVars, pureVars>>
    \/ \E c \in Callers : CheckRead(c) /\ UNCHANGED <<impl, toolVars, connVars, secVars, pureVars>>
    \/ \E c \in Callers : RefreshTest(c) /\ UNCHANGED <<impl, toolVars, connVars, secVars, pureVars>>
    \/ \E c \in Callers : RefreshDel(c) /\ UNCHANGED <<impl, toolVars, connVars, secVars, pureVars>>
    \/ \E c \in Callers : GetTest(c) /\ UNCHANGED <<impl, toolVars, connVars, secVars, pureVars>>
    \/ \E c \in Callers : GetRead(c) /\ UNCHANGED <<impl, toolVars, connVars, secVars, pureVars>>
    \/ \E c \in Callers : GetConn(c) /\ UNCHANGED <<impl, toolVars, connVars, secVars, pureVars>>
    \/ \E c \in Callers : GetLabels(c) /\ UNCHANGED <<impl, toolVars, connVars, secVars, pureVars>>
    \/ \E c \in Callers : GetRels(c) /\ UNCHANGED <<impl, toolVars, connVars, secVars, pureVars>>
    \/ \E c \in Callers : GetSample(c) /\ UNCHANGED <<impl, toolVars, connVars, secVars, pureVars>>
    \/ \E c \in Callers : GetStore(c) /\ UNCHANGED <<impl, toolVars, connVars, secVars, pureVars>>
    \/ \E c \in Callers : Return(c) /\ UNCHANGED <<impl, toolVars, connVars, secVars, pureVars>>
    \/ ChangeDb /\ UNCHANGED <<impl, toolVars, connVars, secVars, pureVars>>

SpecCache == InitCache /\ [][NextCache]_vars

(***************************************************************************)
(* execute_cypher_query and execute_advanced_aggregation with              *)
(* _execute_query taken step by step: driver, session, run, conversion,    *)
(* the two `with` exits, the except clause.  Each step of the driver can   *)
(* raise.                                                                  *)
(***************************************************************************)
\* a read query and a write query
QCallInputs ==
    { [reps |-> 1, payload |-> 2, suffix |-> "RETURN n LIMIT 10", casing |-> "asis"],
      [reps |-> 1, payload |-> 9, suffix |-> "", casing |-> "asis"] }

QueryTools == {"execute_cypher_query", "execute_advanced_aggregation"}

\* a pool that hands out a driver opened before
driver_Pooled(k) == IF k.opened = {} THEN 1 ELSE CHOOSE d \in k.opened : TRUE

\* GraphDatabase.driver(...): a new driver object
driver(k) == Cardinality(k.opened) + 1

\* the failure is swallowed and an empty result reported
ToolReply_Swallows(im, name, cypher_query, outcome) ==
    IF outcome = "error"
    THEN [kind |-> "returned", text |-> "{\"data\": [], \"message\": \"No results found.\"}"]
    ELSE IF name = "execute_cypher_query"
         THEN RunCypherQuery(im, cypher_query, outcome).ret
         ELSE RunAggregation(cypher_query, outcome).ret

\* what the tool makes of json_results = _execute_query(cypher_query)
ToolReply(im, name, cypher_query, outcome) ==
    IF name = "execute_cypher_query"
    THEN RunCypherQuery(im, cypher_query, outcome).ret
    ELSE RunAggregation(cypher_query, outcome).ret

QSet(c, r) == qcall' = [qcall EXCEPT ![c] = r]

\* the tool is called: the gate, then _execute_query begins
QCall(c) ==
    /\ qcall[c].pc = "idle"
    /\ Cardinality(conn.opened) + Cardinality({d \in Callers : qcall[d].pc = "driver"})
          < MaxDrivers
    /\ \E name \in QueryTools, in \in QCallInputs :
          /\ name = "execute_advanced_aggregation" => impl = "tools"
          /\ IF _validate_query_safety(impl, QueryText(in))
             THEN QSet(c, [NoQCall EXCEPT !.pc = "driver", !.tool = name, !.in = in])
             ELSE QSet(c, [NoQCall EXCEPT
                              !.pc = "done", !.tool = name, !.in = in,
                              !.ret = IF name = "execute_cypher_query"
                                      THEN execute_cypher_query(impl, QueryText(in), "rows").ret
                                      ELSE execute_advanced_aggregation(QueryText(in), "rows").ret])
    /\ UNCHANGED conn

Failed(q, cause, next) == [q EXCEPT !.outcome = "error", !.cause = cause, !.pc = next]

\* with GraphDatabase.driver(...) as driver
OpenDriver(c) ==
    /\ qcall[c].pc = "driver"
    /\ \E o \in QueryOutcomes :
          IF o = "ok"
          THEN /\ conn' = [conn EXCEPT !.open_drivers = @ \cup {driver(conn)},
                                       !.opened = @ \cup {driver(conn)}]
               /\ QSet(c, [qcall[c] EXCEPT !.pc = "session", !.driver = driver(conn),
                                           !.fresh = driver(conn) \notin conn.opened])
          ELSE /\ QSet(c, Failed(qcall[c], "connectivity", "except"))
               /\ UNCHANGED conn

\* with driver.session() as session
OpenSession(c) ==
    /\ qcall[c].pc = "session"
    /\ \E o \in QueryOutcomes :
          IF o = "ok"
          THEN /\ conn' = [conn EXCEPT !.open_sessions = @ \cup {qcall[c].driver}]
               /\ QSet(c, [qcall[c] EXCEPT !.pc = "run"])
          ELSE /\ QSet(c, Failed(qcall[c], "connectivity", "exit_driver"))
               /\ UNCHANGED conn

\* result = session.run(query, params)
RunQuery(c) ==
    /\ qcall[c].pc = "run"
    /\ \E o \in DbOutcomes, cause \in {"connectivity", "syntax", "permission"} :
          /\ o # "error" => cause = "syntax"
          /\ QSet(c, IF o = "error"
                     THEN [Failed(qcall[c], cause, "exit_session") EXCEPT !.sends = @ + 1]
                     ELSE [qcall[c] EXCEPT !.pc = "convert", !.outcome = o, !.sends = @ + 1])
    /\ UNCHANGED conn

\* records = [record.data() ...]; _make_serializable; json.dumps
ConvertRecords(c) ==
    /\ qcall[c].pc = "convert"
    /\ \E o \in QueryOutcomes :
          QSet(c, IF o = "ok" THEN [qcall[c] EXCEPT !.pc = "exit_session"]
                  ELSE Failed(qcall[c], "conversion", "exit_session"))
    /\ UNCHANGED conn

\* leaving `with driver.session()`, by return or by exception
ExitSession(c) ==
    /\ qcall[c].pc = "exit_session"
    /\ conn' = [conn EXCEPT !.open_sessions = @ \ {qcall[c].driver}]
    /\ QSet(c, [qcall[c] EXCEPT !.pc = "exit_driver"])

\* leaving `with GraphDatabase.driver(...)`, by return or by exception
ExitDriver(c) ==
    /\ qcall[c].pc = "exit_driver"
    /\ conn' = [conn EXCEPT !.open_drivers = @ \ {qcall[c].driver}]
    /\ QSet(c, [qcall[c] EXCEPT !.pc = IF qcall[c].outcome = "error" THEN "except" ELSE "reply"])

\* except Exception as e: return json.dumps({"error": ...})
ExceptClause(c) ==
    /\ qcall[c].pc = "except"
    /\ QSet(c, [qcall[c] EXCEPT !.pc = "reply"])
    /\ UNCHANGED conn

\* _execute_query has returned json_results; the tool forms its reply
Reply(c) ==
    /\ qcall[c].pc = "reply"
    /\ LET q == qcall[c]
       IN  QSet(c, [q EXCEPT !.pc = "done",
                             !.json = _execute_query(impl, QueryText(q.in), q.outcome),
                             !.ret = ToolReply(impl, q.tool, QueryText(q.in), q.outcome)])
    /\ UNCHANGED conn

\* the caller takes the reply
QReturn(c) ==
    /\ qcall[c].pc = "done"
    /\ QSet(c, NoQCall)
    /\ UNCHANGED conn

InitQuery ==
    /\ impl \in Impls
    /\ input = NoInput
    /\ verdict = "pending"
    /\ tool = "none"
    /\ log = <<>>
    /\ result = NoResult
    /\ InitCacheVars
    /\ InitConnVars
    /\ InitSecVars
    /\ InitPureVars

QueryFrame == UNCHANGED <<impl, toolVars, cacheVars, secVars, pureVars>>

NextQuery ==
    \/ \E c \in Callers : QCall(c) /\ QueryFrame
    \/ \E c \in Callers : OpenDriver(c) /\ QueryFrame
    \/ \E c \in Callers : OpenSession(c) /\ QueryFrame
    \/ \E c \in Callers : RunQuery(c) /\ QueryFrame
    \/ \E c \in Callers : ConvertRecords(c) /\ QueryFrame
    \/ \E c \in Callers : ExitSession(c) /\ QueryFrame
    \/ \E c \in Callers : ExitDriver(c) /\ QueryFrame
    \/ \E c \in Callers : ExceptClause(c) /\ QueryFrame
    \/ \E c \in Callers : Reply(c) /\ QueryFrame
    \/ \E c \in Callers : QReturn(c) /\ QueryFrame

SpecQuery == InitQuery /\ [][NextQuery]_vars

(***************************************************************************)
(* Python regular expressions, as far as security.py uses them             *)
(*                                                                         *)
(* A pattern is a tree; Ends(r, s, P) is the set of positions where a      *)
(* match of r that starts at a position of P can end (positions are        *)
(* 1..Len(s)+1, the position before the character of that index).          *)
(* re.search(r, s) is truthy when some start has some end.                 *)
(***************************************************************************)
Lit(t) == [op |-> "lit", text |-> t]
Space == [op |-> "class", class |-> "s"]
Word == [op |-> "class", class |-> "w"]
AnyChar == [op |-> "class", class |-> "."]
Boundary == [op |-> "b"]
Cat(rs) == [op |-> "cat", args |-> rs]
Alt(rs) == [op |-> "alt", args |-> rs]
Opt(r) == [op |-> "opt", arg |-> r]
Star(r) == [op |-> "star", arg |-> r]
Plus(r) == [op |-> "plus", arg |-> r]

Digits == "0123456789"

\* \w on ASCII text
IsWordChar(c) == IsLetter(c) \/ str_in(c, Digits) \/ c = "_"

\* \s on ASCII text
IsSpaceChar(c) == c \in {" ", "\t", "\n", "\r", "\f"}

InClass(k, c) ==
    CASE k = "s" -> IsSpaceChar(c)
      [] k = "w" -> IsWordChar(c)
      [] k = "." -> c # "\n"

\* \b holds at position p
AtBoundary(s, p) ==
    LET before == p > 1 /\ IsWordChar(CharAt(s, p - 1))
        after == p <= Len(s) /\ IsWordChar(CharAt(s, p))
    IN  before # after

RECURSIVE Ends(_, _, _), CatEnds(_, _, _, _), StarEnds(_, _, _)
Ends(r, s, P) ==
    CASE r.op = "lit" ->
            {p + Len(r.text) : p \in {q \in P : /\ q + Len(r.text) - 1 <= Len(s)
                                                 /\ SubSeq(s, q, q + Len(r.text) - 1) = r.text}}
      [] r.op = "class" ->
            {p + 1 : p \in {q \in P : q <= Len(s) /\ InClass(r.class, CharAt(s, q))}}
      [] r.op = "b" -> {p \in P : AtBoundary(s, p)}
      [] r.op = "cat" -> CatEnds(r.args, 1, s, P)
      [] r.op = "alt" -> UNION {Ends(r.args[i], s, P) : i \in DOMAIN r.args}
      [] r.op = "opt" -> P \cup Ends(r.arg, s, P)
      [] r.op = "star" -> StarEnds(r.arg, s, P)
      [] r.op = "plus" -> StarEnds(r.arg, s, Ends(r.arg, s, P))

CatEnds(rs, i, s, P) ==
    IF i > Len(rs) \/ P = {} THEN P ELSE CatEnds(rs, i + 1, s, Ends(rs[i], s, P))

StarEnds(r, s, P) ==
    LET Q == P \cup Ends(r, s, P)
    IN  IF Q = P THEN P ELSE StarEnds(r, s, Q)

\* re.search(pattern, s) finds a match
re_search(pattern, s) == Ends(pattern, s, 1..(Len(s) + 1)) # {}

(***************************************************************************)
(* security.py: the intent classifier                                      *)
(***************************************************************************)
Words(ws) == Alt([i \in DOMAIN ws |-> Lit(ws[i])])

\* \bVERB\s+(OPTIONAL\s+)?(NOUNS)
VerbOptNouns(verb, optional, nouns) ==
    Cat(<<Boundary, Lit(verb), Plus(Space), Opt(Cat(<<Lit(optional), Plus(Space)>>)),
          Words(nouns)>>)

\* \bVERB\s+(\w+\s+)*(NOUNS)
VerbAnyNouns(verb, nouns) ==
    Cat(<<Boundary, Lit(verb), Plus(Space), Star(Cat(<<Plus(Word), Plus(Space)>>)),
          Words(nouns)>>)

\* \bVERB\s+(into\s+)?\w+
VerbInto(verb) ==
    Cat(<<Boundary, Lit(verb), Plus(Space), Opt(Cat(<<Lit("into"), Plus(Space)>>)),
          Plus(Word)>>)

destructive_patterns ==
    << VerbOptNouns("create", "new", <<"user", "customer", "product", "order", "record",
                                       "node", "database", "table">>),
       VerbOptNouns("add", "new", <<"user", "customer", "product", "order", "record", "entry">>),
       VerbInto("insert"),
       VerbOptNouns("update", "the", <<"user", "customer", "product", "order", "record",
                                       "database", "table">>),
       VerbOptNouns("modify", "the", <<"user", "customer", "product", "order", "record",
                                       "database", "table">>),
       VerbAnyNouns("delete", <<"user", "customer", "product", "order", "record", "data", "from">>),
       VerbAnyNouns("remove", <<"user", "customer", "product", "order", "record", "data", "from">>),
       Cat(<<Boundary, Lit("drop"), Plus(Space),
             Words(<<"table", "database", "index", "constraint", "user">>)>>),
       Cat(<<Boundary, Lit("set"), Plus(Space), Plus(Word), Star(Space), Lit("=")>>),
       VerbInto("merge") >>

destructive_keywords ==
    <<"insert into", "create node", "delete from", "remove node",
      "modify data", "change database", "update database", "alter table">>

safe_indicators ==
    <<"how to", "how do i", "can you show", "what is", "tell me about",
      "explain", "describe", "example of", "information about",
      "update me", "keep me updated", "status update">>

\* \bA\s+B\b
TwoWords(a, b) == Cat(<<Boundary, Lit(a), Plus(Space), Lit(b), Boundary>>)

\* \bA\b.*\bB\b
ThenLater(a, b) ==
    Cat(<<Boundary, Lit(a), Boundary, Star(AnyChar), Boundary, Lit(b), Boundary>>)

safe_query_patterns ==
    << Cat(<<Boundary,
             Words(<<"list", "show", "find", "get", "fetch", "display", "retrieve">>),
             Boundary>>),
       TwoWords("order", "by"),
       TwoWords("group", "by"),
       ThenLater("count", "by"),
       ThenLater("sum", "by"),
       ThenLater("total", "by"),
       Cat(<<Boundary, Lit("all"), Plus(Space), Plus(Word), Plus(Space), Lit("order"), Boundary>>),
       ThenLater("subscription", "order") >>

\* only the indicator phrases count as a safe context
_is_safe_context_IndicatorsOnly(message_arg, matched_pattern) ==
    \E indicator \in Range(safe_indicators) : str_in(indicator, str_lower(message_arg))

_is_safe_context(message_arg, matched_pattern) ==
    LET message_lower == str_lower(message_arg)
    IN  \/ \E pattern \in Range(safe_query_patterns) : re_search(pattern, message_lower)
        \/ \E indicator \in Range(safe_indicators) : str_in(indicator, message_lower)

\* the fixed phrases are downgraded by a safe context like the patterns
is_destructive_intent_AllDowngraded(user_message) ==
    LET message_lower == str_lower(user_message)
    IN  /\ ~ _is_safe_context(user_message, <<>>)
        /\ \/ \E pattern \in Range(destructive_patterns) : re_search(pattern, message_lower)
           \/ \E keyword \in Range(destructive_keywords) : str_in(keyword, message_lower)

is_destructive_intent(user_message) ==
    IF user_message = "" THEN FALSE
    ELSE LET message_lower == str_lower(user_message)
         IN  \/ \E pattern \in Range(destructive_patterns) :
                   /\ re_search(pattern, message_lower)
                   /\ ~ _is_safe_context(user_message, pattern)
             \/ \E keyword \in Range(destructive_keywords) : str_in(keyword, message_lower)

CreateSuggestion == "Instead, try: 'Show me existing records' or 'List current data'"
UpdateSuggestion ==
    "Instead, try: 'Show me the current values' or 'Display records that need updating'"
DeleteSuggestion ==
    "Instead, try: 'Show me records to review' or 'List items matching criteria'"
GenericSuggestion == "Try rephrasing as: 'Show me...', 'List...', 'Find...', or 'Count...'"

get_reformulation_suggestion(user_message) ==
    LET message_lower == str_lower(user_message)
    IN  IF str_in("create", message_lower) \/ str_in("add", message_lower)
        THEN CreateSuggestion
        ELSE IF str_in("update", message_lower) \/ str_in("modify", message_lower)
        THEN UpdateSuggestion
        ELSE IF str_in("delete", message_lower) \/ str_in("remove", message_lower)
        THEN DeleteSuggestion
        ELSE GenericSuggestion

(***************************************************************************)
(* Messages handed to the classifier: opener, request, closer              *)
(***************************************************************************)
Openers == {"", "Please ", "how to ", "Show me how we ", "Explain: ", "recount and "}

Requests ==
    {"", "create new user", "CREATE   a user", "create users", "recreate user",
     "add new entry", "add the product", "insert into orders", "insert   rows",
     "update the customer", "update customer created yesterday", "update me on orders",
     "modify the record", "modify data", "delete all old records", "delete from users",
     "delete the user address", "delete\nold data", "remove node 5", "remove the stale order",
     "drop table address", "drop the table", "set age = 5", "set age to 5", "reset x =1",
     "merge into x", "alter table t", "change database", "update database",
     "count orders", "total of all pending order", "customers with a subscription"}

Closers == {"", " order by name", " ORDER  BY name", " grouped by region", " and describe it",
            " in order"}

Messages == {o \o r \o c : o \in Openers, r \in Requests, c \in Closers}

InitIntent ==
    /\ impl = "agents"
    /\ input = NoInput
    /\ verdict = "pending"
    /\ tool = "none"
    /\ log = <<>>
    /\ result = NoResult
    /\ InitCacheVars
    /\ InitConnVars
    /\ message \in Messages
    /\ intent = NoIntent
    /\ agent = "none"
    /\ llm_request = <<>>
    /\ turn = NoTurn
    /\ InitPureVars

IntentFrame ==
    UNCHANGED <<impl, toolVars, cacheVars, connVars, message, agent, llm_request, turn, pureVars>>

\* is_destructive_intent(message)
Classify ==
    /\ ~ intent.done
    /\ intent' = [intent EXCEPT !.destructive = is_destructive_intent(message), !.done = TRUE]
    /\ IntentFrame

\* get_reformulation_suggestion(message), asked for a destructive message
Suggest ==
    /\ intent.done /\ intent.destructive /\ intent.suggestion = ""
    /\ intent' = [intent EXCEPT !.suggestion = get_reformulation_suggestion(message)]
    /\ IntentFrame

NextIntent == Classify \/ Suggest

SpecIntent == InitIntent /\ [][NextIntent]_vars

(***************************************************************************)
(* security.py: query_security_callback, and a turn of the conversation    *)
(*                                                                         *)
(* The framework keeps the contents of the conversation, calls the agent's *)
(* before_model_callback (when it has one) before every model call, and    *)
(* skips the model call when the callback returns a response.  A content   *)
(* has a role and parts; a part carries text, a function call, a function  *)
(* response or inline data.  Tool results enter the contents with role     *)
(* "user" as function responses.                                           *)
(***************************************************************************)
TextPart(t) == [kind |-> "text", text |-> t]
FunctionCallPart == [kind |-> "function_call", text |-> ""]
FunctionResponsePart == [kind |-> "function_response", text |-> ""]
BlobPart == [kind |-> "inline_data", text |-> ""]
Content(role, parts) == [role |-> role, parts |-> parts]

\* for part in content.parts: if hasattr(part, 'text') and part.text
first_text(parts) ==
    LET with_text == {i \in DOMAIN parts : parts[i].text # ""}
    IN  IF with_text = {} THEN ""
        ELSE parts[CHOOSE i \in with_text : \A j \in with_text : i <= j].text

\* for content in reversed(llm_request.contents): the first text found
extract_user_message(contents) ==
    LET with_text == {i \in DOMAIN contents : first_text(contents[i].parts) # ""}
    IN  IF with_text = {} THEN ""
        ELSE first_text(contents[CHOOSE i \in with_text : \A j \in with_text : i >= j].parts)

security_message(suggestion) ==
    "Security Alert: I can only help with reading and analyzing data from your " \o
    "Neo4j database. I cannot perform write, update, or delete operations.\n\n" \o
    suggestion \o "\n\nI can help you with:\n<list>"

\* the texts users and the model write in the conversations considered
UserTexts == {"show all customers", "delete from users", "how to delete from users"}
ModelTexts == {"", "Let me check.", "I will remove data of the cache first."}

\* is_destructive_intent and get_reformulation_suggestion on those texts,
\* evaluated once
IntentOfText ==
    [t \in UserTexts \cup ModelTexts |->
        [destructive |-> is_destructive_intent(t),
         suggestion |-> get_reformulation_suggestion(t)]]

\* where an exception can arise inside the callback
Faults == {"none", "extract", "classify", "suggest", "respond"}

CallbackNone(user_message, failed) ==
    [kind |-> "None", text |-> "", user_message |-> user_message, failed |-> failed]

\* an exception of the callback reaches the framework
query_security_callback_Propagates(contents, fault) ==
    IF fault # "none"
    THEN [kind |-> "raised", text |-> "", user_message |-> "", failed |-> TRUE]
    ELSE CallbackNone(extract_user_message(contents), FALSE)

\* query_security_callback(callback_context, llm_request), with an
\* exception arising at `fault` if the call gets there
query_security_callback(contents, fault) ==
    IF fault = "extract" THEN CallbackNone("", TRUE)
    ELSE LET user_message == extract_user_message(contents)
         IN  IF user_message = "" THEN CallbackNone("", FALSE)
             ELSE IF fault = "classify" THEN CallbackNone(user_message, TRUE)
             ELSE IF ~ IntentOfText[user_message].destructive
                  THEN CallbackNone(user_message, FALSE)
             ELSE IF fault \in {"suggest", "respond"} THEN CallbackNone(user_message, TRUE)
             ELSE [kind |-> "LlmResponse",
                   text |-> security_message(IntentOfText[user_message].suggestion),
                   user_message |-> user_message, failed |-> FALSE]

\* the agent definitions of the repository that expose the query tools
Agents == {"agents.agent.root_agent", "neo4j_database_agent.agent.root_agent",
           "neo4j_database_agent.agent_factory.create_agent"}

\* before_model_callback=query_security_callback
HasSecurityCallback(a) == a = "agents.agent.root_agent"

\* contents a conversation may reach
MaxContents == 5

NoCallback == [kind |-> "none", text |-> "", user_message |-> "", failed |-> FALSE]

\* state of a turn: phase, the inbound message, what the callback last
\* answered, whether the inbound message has been classified, whether a
\* callback of the turn took its except clause, how often the model and
\* the tools were invoked, the reply that ended the turn
Turn0 == [phase |-> "idle", inbound |-> "", callback |-> NoCallback, classified |-> FALSE,
          faulted |-> FALSE, model_calls |-> 0, tool_calls |-> 0, reply |-> ""]

InitTurn ==
    /\ impl \in Impls
    /\ input = NoInput
    /\ verdict = "pending"
    /\ tool = "none"
    /\ log = <<>>
    /\ result = NoResult
    /\ InitCacheVars
    /\ InitConnVars
    /\ message = ""
    /\ intent = NoIntent
    /\ agent \in {a \in Agents : HasSecurityCallback(a) <=> impl = "agents"}
    /\ llm_request = <<>>
    /\ turn = Turn0
    /\ InitPureVars

TurnFrame == UNCHANGED <<impl, toolVars, cacheVars, connVars, message, intent, agent, pureVars>>

\* an inbound user message: a text, or a content without text
UserSends ==
    /\ turn.phase \in {"idle", "ended"}
    /\ Len(llm_request) < MaxContents
    /\ \E parts \in {<<TextPart(t)>> : t \in UserTexts} \cup {<<BlobPart>>} :
          /\ llm_request' = Append(llm_request, Content("user", parts))
          /\ turn' = [Turn0 EXCEPT !.phase = "before_model", !.inbound = first_text(parts)]
    /\ TurnFrame

\* the framework is about to call the model
BeforeModel ==
    /\ turn.phase = "before_model"
    /\ IF HasSecurityCallback(agent)
       THEN \E fault \in Faults :
               LET r == query_security_callback(llm_request, fault)
               IN  turn' = [turn EXCEPT
                      !.callback = r,
                      !.classified = @ \/ (r.user_message = turn.inbound /\ r.user_message # ""
                                             /\ fault # "classify"),
                      !.faulted = @ \/ r.failed,
                      !.phase = IF r.kind = "LlmResponse" THEN "ended" ELSE "model",
                      !.reply = IF r.kind = "LlmResponse" THEN r.text ELSE @]
       ELSE turn' = [turn EXCEPT !.phase = "model"]
    /\ UNCHANGED llm_request
    /\ TurnFrame

\* the model answers with a text, or asks for a tool with or without text
ModelResponds ==
    /\ turn.phase = "model"
    /\ \E t \in ModelTexts, calls_tool \in BOOLEAN :
          /\ ~calls_tool => t # ""
          /\ calls_tool => Len(llm_request) + 2 <= MaxContents
          /\ llm_request' = Append(llm_request,
                Content("model", (IF t = "" THEN <<>> ELSE <<TextPart(t)>>) \o
                                 (IF calls_tool THEN <<FunctionCallPart>> ELSE <<>>)))
          /\ turn' = [turn EXCEPT !.model_calls = @ + 1,
                                  !.phase = IF calls_tool THEN "tool" ELSE "ended",
                                  !.reply = IF calls_tool THEN @ ELSE t]
    /\ TurnFrame

\* the framework runs the tool and adds its response to the contents
ToolRuns ==
    /\ turn.phase = "tool"
    /\ llm_request' = Append(llm_request, Content("user", <<FunctionResponsePart>>))
    /\ turn' = [turn EXCEPT !.tool_calls = @ + 1, !.phase = "before_model"]
    /\ TurnFrame

NextTurn == UserSends \/ BeforeModel \/ ModelResponds \/ ToolRuns

SpecTurn == InitTurn /\ [][NextTurn]_vars

(***************************************************************************)
(* _format_results_as_table                                                *)
(*                                                                         *)
(* A record is a dict in key order: a sequence of key/value items.  A      *)
(* value is an int, a str or None.                                         *)
(***************************************************************************)
IntValue(n) == [t |-> "int", n |-> n, s |-> ""]
StrValue(s) == [t |-> "str", n |-> 0, s |-> s]
NoneValue == [t |-> "NoneType", n |-> 0, s |-> ""]
Item(k, v) == [k |-> k, v |-> v]

\* str(value)
py_str(v) ==
    CASE v.t = "int" -> ToString(v.n)
      [] v.t = "str" -> v.s
      [] OTHER       -> "None"

\* isinstance(value, (int, float))
is_numeric(v) == v.t = "int"

\* list(d.keys())
dict_keys(d) == [i \in DOMAIN d |-> d[i].k]

has_key(d, key) == \E i \in DOMAIN d : d[i].k = key

\* d.get(key, default)
dict_get(d, key, default) ==
    IF has_key(d, key) THEN d[CHOOSE i \in DOMAIN d : d[i].k = key].v ELSE default

\* s * n
str_times(s, n) == IF n <= 0 THEN "" ELSE Repeat(s, n)

\* f"{s:<{width}}"
ljust(s, width) == s \o str_times(" ", width - Len(s))

Max(a, b) == IF a > b THEN a ELSE b

RECURSIVE MaxOver(_)
MaxOver(ns) == IF Len(ns) = 1 THEN ns[1] ELSE Max(ns[1], MaxOver(Tail(ns)))

RECURSIVE SumOver(_)
SumOver(ns) == IF Len(ns) = 0 THEN 0 ELSE ns[1] + SumOver(Tail(ns))

\* f"{total:,.0f}" of a whole number
RECURSIVE format_thousands(_)
format_thousands(n) ==
    IF n < 0 THEN "-" \o format_thousands(0 - n)
    ELSE IF n < 1000 THEN ToString(n)
    ELSE format_thousands(n \div 1000) \o "," \o
         (LET r == n % 1000
          IN  (IF r < 10 THEN "00" ELSE IF r < 100 THEN "0" ELSE "") \o ToString(r))

ColumnWidthCap == 20

\* col_widths[key]
col_widths(results, key) ==
    Min(Max(Len(key),
            MaxOver([i \in DOMAIN results |->
                        Len(py_str(dict_get(results[i], key, StrValue("")))) ])),
        ColumnWidthCap)

\* a missing key is shown like a None value
row_value_NoneForMissing(results, record, key) ==
    ljust(py_str(dict_get(record, key, NoneValue)), col_widths(results, key))

\* one cell of a data row
row_value(results, record, key) ==
    LET value == py_str(dict_get(record, key, StrValue("")))
        width == col_widths(results, key)
    IN  ljust(IF Len(value) > width THEN SubSeq(value, 1, width - 3) \o "..." ELSE value,
              width)

\* the sum over the records whose value under key is a number
column_total(results, key) ==
    SumOver([i \in DOMAIN results |->
                IF is_numeric(dict_get(results[i], key, NoneValue))
                THEN dict_get(results[i], key, NoneValue).n ELSE 0])

\* if total > 0: numeric_totals[key] = total
has_total(results, key) == column_total(results, key) > 0

\* the keys of numeric_totals, in key order
numeric_totals(results, keys) ==
    SelectSeq(keys, LAMBDA key : has_total(results, key))

_format_results_as_table(results) ==
    IF Len(results) = 0 THEN "No results found."
    ELSE IF Len(results[1]) = 0 THEN "No results found."
    ELSE LET keys == dict_keys(results[1])
         IN  IF Len(results) = 1
             THEN str_join("\n", [i \in DOMAIN results[1] |->
                     "**" \o results[1][i].k \o "**: " \o py_str(results[1][i].v)])
             ELSE LET header_row ==
                          "| " \o str_join(" | ", [j \in DOMAIN keys |->
                                     ljust(keys[j], col_widths(results, keys[j]))]) \o " |"
                      separator_row ==
                          "|" \o str_join("|", [j \in DOMAIN keys |->
                                    ":" \o str_times("-", col_widths(results, keys[j])) \o ":"]) \o "|"
                      rows == [i \in DOMAIN results |->
                                 "| " \o str_join(" | ", [j \in DOMAIN keys |->
                                            row_value(results, results[i], keys[j])]) \o " |"]
                      totals == numeric_totals(results, keys)
                      summary ==
                          IF Len(totals) = 0 THEN <<>>
                          ELSE <<"", "**Summary:**">> \o
                               [j \in DOMAIN totals |->
                                  "- Total " \o totals[j] \o ": " \o
                                  format_thousands(column_total(results, totals[j]))]
                  IN  str_join("\n", <<header_row, separator_row>> \o rows \o summary \o
                                     <<"", "*Total rows: " \o ToString(Len(results)) \o "*">>)

\* the records the formatter is tried on
Records ==
    { <<Item("name", StrValue("Ann")), Item("count", IntValue(3))>>,
      <<Item("name", StrValue("Bob")), Item("count", IntValue(1500))>>,
      <<Item("name", StrValue("Cy"))>>,
      <<Item("count", IntValue(2)), Item("name", StrValue("Dee")), Item("extra", StrValue("x"))>>,
      <<>>,
      <<Item("name", StrValue("Eve of the long name, Esq.")), Item("count", NoneValue)>>,
      <<Item("name", StrValue("Flo")), Item("count", IntValue(-4))>>,
      <<Item("name", StrValue("Gus")), Item("count", IntValue(0))>> }

MaxRecords == 3

RECURSIVE SeqsUpTo(_, _)
SeqsUpTo(S, n) ==
    IF n = 0 THEN {<<>>}
    ELSE LET shorter == SeqsUpTo(S, n - 1)
         IN  shorter \cup {Append(q, x) : q \in {p \in shorter : Len(p) = n - 1}, x \in S}

ReturnedText(text) == [kind |-> "returned", text |-> text]

PureFrame == UNCHANGED <<impl, toolVars, cacheVars, connVars, secVars>>

InitTable ==
    /\ impl = "tools"
    /\ input = NoInput
    /\ verdict = "pending"
    /\ tool = "none"
    /\ log = <<>>
    /\ result = NoResult
    /\ InitCacheVars
    /\ InitConnVars
    /\ InitSecVars
    /\ InitPureVars

CallFormatResultsAsTable ==
    /\ fn = "none"
    /\ \E results \in SeqsUpTo(Records, MaxRecords) :
          /\ fn' = "_format_results_as_table"
          /\ arg' = [kind |-> "records", results |-> results]
          /\ out' = ReturnedText(_format_results_as_table(results))
    /\ PureFrame

\* the helper has returned; the next application starts from scratch
PureReturn ==
    /\ fn # "none"
    /\ fn' = "none"
    /\ arg' = NoArg
    /\ out' = NoOut
    /\ PureFrame

NextTable == CallFormatResultsAsTable \/ PureReturn

SpecTable == InitTable /\ [][NextTable]_vars

(***************************************************************************)
(* simple_charts: create_bar_chart and format_as_chart                     *)
(*                                                                         *)
(* Rows are records as above.  The block glyph of a bar is written "#".    *)
(***************************************************************************)
value_priorities == <<"count", "total", "amount", "sum", "value", "number">>
label_priorities == <<"year", "name", "label", "category", "type">>

bar_width == 40

BarGlyph == "#"

\* the characters of labels (space, digits, letters, underscore) in
\* code-point order
CodePoints == " 0123456789ABCDEFGHIJKLMNOPQRSTUVWXYZ_abcdefghijklmnopqrstuvwxyz"

\* a < b on str
RECURSIVE str_less(_, _)
str_less(a, b) ==
    IF b = "" THEN FALSE
    ELSE IF a = "" THEN TRUE
    ELSE IF CharAt(a, 1) = CharAt(b, 1) THEN str_less(Tail(a), Tail(b))
    ELSE str_find(CodePoints, CharAt(a, 1)) < str_find(CodePoints, CharAt(b, 1))

\* s.isdigit()
str_isdigit(s) == s # "" /\ \A i \in 1..Len(s) : str_in(CharAt(s, i), "0123456789")

\* the first element of seq that passes the test, "" if none
FirstWhere(seq, Test(_)) ==
    LET hits == {i \in DOMAIN seq : Test(seq[i])}
    IN  IF hits = {} THEN "" ELSE seq[CHOOSE i \in hits : \A j \in hits : i <= j]

\* all(isinstance(row.get(key), (int, float)) for row in data)
all_numeric(data, key) ==
    \A i \in DOMAIN data : is_numeric(dict_get(data[i], key, NoneValue))

value_key_of(data) ==
    LET keys == dict_keys(data[1])
        InKeys(k) == \E j \in DOMAIN keys : keys[j] = k
        by_priority == FirstWhere(value_priorities, LAMBDA k : InKeys(k) /\ all_numeric(data, k))
    IN  IF by_priority # "" THEN by_priority
        ELSE FirstWhere(keys, LAMBDA k : all_numeric(data, k))

label_key_of(data, value_key) ==
    LET keys == dict_keys(data[1])
        InKeys(k) == \E j \in DOMAIN keys : keys[j] = k
        by_priority == FirstWhere(label_priorities, LAMBDA k : InKeys(k) /\ k # value_key)
    IN  IF by_priority # "" THEN by_priority
        ELSE FirstWhere(keys, LAMBDA k : k # value_key)

\* the sort key order of chart_data.sort: int(label) for digits, else the label
label_less(a, b) ==
    IF str_isdigit(a.label) /\ str_isdigit(b.label)
    THEN DecimalValue(a.label) < DecimalValue(b.label)
    ELSE str_less(a.label, b.label)

\* list.sort: stable
RECURSIVE sorted_by_label(_)
sorted_by_label(chart_data) ==
    IF Len(chart_data) <= 1 THEN chart_data
    ELSE LET n == Len(chart_data)
             front == sorted_by_label(SubSeq(chart_data, 1, n - 1))
             x == chart_data[n]
             before == {i \in DOMAIN front : ~ label_less(x, front[i])}
             k == IF before = {} THEN 0 ELSE CHOOSE i \in before : \A j \in before : j <= i
         IN  SubSeq(front, 1, k) \o <<x>> \o SubSeq(front, k + 1, n - 1)

\* int(a / b) for b > 0: the quotient cut towards zero
int_quotient(a, b) == IF a >= 0 THEN a \div b ELSE 0 - ((0 - a) \div b)

\* int((value / max_value) * bar_width)
bar_length(value, max_value) ==
    IF max_value > 0 THEN int_quotient(value * bar_width, max_value) ELSE 0

chart_row(label, value, max_value) ==
    LET display_label == IF Len(label) > 15 THEN SubSeq(label, 1, 12) \o "..." ELSE label
        bar == str_times(BarGlyph, bar_length(value, max_value))
        spaces == str_times(" ", bar_width - bar_length(value, max_value))
    IN  ljust(display_label, 15) \o " : " \o bar \o spaces \o " " \o format_thousands(value)

create_bar_chart(data, title) ==
    IF Len(data) = 0 THEN "No data to visualize"
    ELSE LET value_key == value_key_of(data)
             label_key == label_key_of(data, value_key)
         IN  IF value_key = "" \/ label_key = ""
             THEN "Cannot create chart - need label and numeric columns"
             ELSE LET chart_data ==
                          sorted_by_label([i \in DOMAIN data |->
                             [label |-> py_str(dict_get(data[i], label_key, StrValue("Unknown"))),
                              value |-> dict_get(data[i], value_key, IntValue(0)).n]])
                      max_value == MaxOver(<<0>> \o [i \in DOMAIN chart_data |-> chart_data[i].value])
                      total == SumOver([i \in DOMAIN chart_data |-> chart_data[i].value])
                  IN  str_join("\n",
                         <<title, str_times("=", Len(title)), "">> \o
                         [i \in DOMAIN chart_data |->
                            chart_row(chart_data[i].label, chart_data[i].value, max_value)] \o
                         <<"", ljust("Total", 15) \o " : " \o format_thousands(total)>>)

\* json.dumps of a value, a row, a list of rows
json_value(v) ==
    CASE v.t = "int" -> ToString(v.n)
      [] v.t = "str" -> "\"" \o v.s \o "\""
      [] OTHER       -> "null"

json_object(d) ==
    "{" \o str_join(", ", [i \in DOMAIN d |-> "\"" \o d[i].k \o "\": " \o json_value(d[i].v)]) \o "}"

json_array(rows) == "[" \o str_join(", ", [i \in DOMAIN rows |-> json_object(rows[i])]) \o "]"

\* the rows charts are drawn from
ChartRows ==
    { <<Item("name", StrValue("Ann")), Item("count", IntValue(3))>>,
      <<Item("name", StrValue("Bob")), Item("count", IntValue(10))>>,
      <<Item("name", StrValue("Cy")), Item("count", IntValue(-5))>>,
      <<Item("name", StrValue("Dee")), Item("count", IntValue(0))>>,
      <<Item("name", StrValue("Bartholomew Longname")), Item("count", IntValue(1500))>>,
      <<Item("count", IntValue(7))>>,
      <<Item("name", StrValue("Eve")), Item("count", NoneValue)>>,
      <<Item("year", IntValue(2024)), Item("total", IntValue(4))>>,
      <<Item("year", IntValue(999)), Item("total", IntValue(8))>> }

MaxChartRows == 3

\* what a JSON text can hold: a list of rows, one row, an error object, a
\* list of numbers
Documents ==
    {[kind |-> "list", rows |-> rows, text |-> json_array(rows)] :
        rows \in SeqsUpTo(ChartRows, MaxChartRows - 1)} \cup
    {[kind |-> "dict", rows |-> <<d>>, text |-> json_object(d)] : d \in ChartRows \cup {<<>>}} \cup
    {[kind |-> "error", rows |-> <<>>, text |-> "{\"error\": \"Database connection failed: <e>\"}"],
     [kind |-> "numbers", rows |-> <<>>, text |-> "[1, 2]"]}

\* texts that are no JSON
MalformedTexts == {"", "Query Results:\n| name | count |", "[{\"name\": \"Ann\", \"count\": 3}"}

\* json.loads: the document the text denotes, or JSONDecodeError
json_loads(text) ==
    IF \E d \in Documents : d.text = text
    THEN CHOOSE d \in Documents : d.text = text
    ELSE [kind |-> "JSONDecodeError", rows |-> <<>>, text |-> text]

format_as_chart(query_results_json) ==
    LET results == json_loads(query_results_json)
    IN  CASE results.kind = "JSONDecodeError" -> "Error: Invalid JSON in query results"
          [] results.kind = "error" -> "Error: Database connection failed: <e>"
          [] results.kind = "numbers" ->
                "Error creating chart: 'int' object has no attribute 'keys'"
          [] results.kind = "dict" /\ results.rows = <<<<>>>> -> "No data to visualize"
          [] OTHER -> create_bar_chart(results.rows, "Data Visualization")

InitChart ==
    /\ impl = "tools"
    /\ input = NoInput
    /\ verdict = "pending"
    /\ tool = "none"
    /\ log = <<>>
    /\ result = NoResult
    /\ InitCacheVars
    /\ InitConnVars
    /\ InitSecVars
    /\ InitPureVars

CallCreateBarChart ==
    /\ fn = "none"
    /\ \E data \in SeqsUpTo(ChartRows, MaxChartRows) :
          /\ fn' = "create_bar_chart"
          /\ arg' = [kind |-> "rows", data |-> data, text |-> ""]
          /\ out' = ReturnedText(create_bar_chart(data, "Data Visualization"))
    /\ PureFrame

CallFormatAsChart ==
    /\ fn = "none"
    /\ \E text \in {d.text : d \in Documents} \cup MalformedTexts :
          /\ fn' = "format_as_chart"
          /\ arg' = [kind |-> "text", data |-> <<>>, text |-> text]
          /\ out' = ReturnedText(format_as_chart(text))
    /\ PureFrame

NextChart == CallCreateBarChart \/ CallFormatAsChart \/ PureReturn

SpecChart == InitChart /\ [][NextChart]_vars

(***************************************************************************)
(* agents/query_utils.validate_query_safety                                *)
(***************************************************************************)
allowed_keywords ==
    {"MATCH", "RETURN", "WHERE", "WITH", "ORDER", "BY", "LIMIT", "SKIP",
     "AS", "AND", "OR", "NOT", "IN", "CONTAINS", "STARTS", "ENDS",
     "COUNT", "SUM", "AVG", "MAX", "MIN", "COLLECT", "DISTINCT",
     "CASE", "WHEN", "THEN", "ELSE", "END", "COALESCE", "HEAD", "TAIL",
     "SIZE", "LENGTH", "TRIM", "UPPER", "LOWER", "SPLIT", "SUBSTRING",
     "DATE", "TIME", "DATETIME", "DURATION", "TRUNCATE"}

dangerous_operations == {"CREATE", "MERGE", "SET", "DELETE", "REMOVE", "DROP", "DETACH"}

safe_procedures ==
    {"db.labels", "db.relationshiptypes", "db.schema", "db.propertykeys",
     "apoc.meta", "apoc.help", "dbms.procedures", "dbms.functions"}

IsUpperOrUnderscore(c) == c \in DOMAIN LowMap \/ c = "_"

\* re.findall(r'\b[A-Z_]+\b', s): the runs of capitals and underscores that
\* begin and end at a word boundary
findall_words(s) ==
    {SubSeq(s, p[1], p[2]) : p \in
        {p \in (1..Len(s)) \X (1..Len(s)) :
            /\ p[1] <= p[2]
            /\ \A k \in p[1]..p[2] : IsUpperOrUnderscore(CharAt(s, k))
            /\ p[1] = 1 \/ ~ IsWordChar(CharAt(s, p[1] - 1))
            /\ p[2] = Len(s) \/ ~ IsWordChar(CharAt(s, p[2] + 1))}}

\* bool(re.match(r'^[A-Z][A-Z0-9_]*$', word))
_is_identifier(word) ==
    /\ Len(word) >= 1
    /\ CharAt(word, 1) \in DOMAIN LowMap
    /\ \A k \in 2..Len(word) :
          IsUpperOrUnderscore(CharAt(word, k)) \/ str_in(CharAt(word, k), Digits)

IsProcChar(c) == IsWordChar(c) \/ c = "."

\* re.findall(r'CALL\s+([a-zA-Z0-9_.]+)', s): the names that follow a CALL
\* written in capitals
findall_procedures(s) ==
    LET NameStart(i) ==
            CHOOSE j \in (i + 4)..(Len(s) + 1) :
                /\ \A k \in (i + 4)..(j - 1) : IsSpaceChar(CharAt(s, k))
                /\ j = Len(s) + 1 \/ ~ IsSpaceChar(CharAt(s, j))
        NameEnd(j) ==
            CHOOSE e \in j..Len(s) :
                /\ \A k \in j..e : IsProcChar(CharAt(s, k))
                /\ e = Len(s) \/ ~ IsProcChar(CharAt(s, e + 1))
        Named == {i \in OccurrencesOf(s, "CALL") :
                    /\ NameStart(i) > i + 4
                    /\ NameStart(i) <= Len(s)
                    /\ IsProcChar(CharAt(s, NameStart(i)))}
    IN  {SubSeq(s, NameStart(i), NameEnd(NameStart(i))) : i \in Named}

validate_query_safety(cypher) ==
    IF cypher = "" THEN FALSE
    ELSE LET query_upper == str_strip(str_upper(cypher))
             query_lower == str_strip(str_lower(cypher))
         IN  /\ \A word \in findall_words(query_upper) :
                   ~ (/\ word \notin allowed_keywords
                      /\ ~ _is_identifier(word)
                      /\ word \in dangerous_operations)
             /\ str_in("CALL", query_upper) =>
                   \A proc \in findall_procedures(query_lower) :
                       \E safe_proc \in safe_procedures : str_in(safe_proc, proc)

\* the queries the validator is tried on: a clause word, or none, in three
\* letter cases and five places
ClauseWords == dangerous_operations \cup {"CALL", "RETURN", "_SET", "OFFSET"}

ClausePlaces == {"alone", "after_match", "property", "inside", "procedure"}

SafetyQuery(word, casing, place) ==
    LET w == ApplyCasing(casing, word)
    IN  CASE place = "alone"       -> w \o " (n:Person {id: 1})"
          [] place = "after_match" -> "MATCH (n) " \o w \o " n.seen = 1 RETURN n"
          [] place = "property"    -> "MATCH (n) RETURN n." \o w
          [] place = "inside"      -> "MATCH (n) RETURN n.re" \o w \o "2"
          [] OTHER                 -> "CALL apoc.create.node(['A'], {}) YIELD node " \o w \o " node.x = 1"

ReturnedBool(b) == [kind |-> "returned", text |-> IF b THEN "True" ELSE "False"]

InitSafety ==
    /\ impl = "agents"
    /\ input = NoInput
    /\ verdict = "pending"
    /\ tool = "none"
    /\ log = <<>>
    /\ result = NoResult
    /\ InitCacheVars
    /\ InitConnVars
    /\ InitSecVars
    /\ InitPureVars

CallValidateQuerySafety ==
    /\ fn = "none"
    /\ \E word \in ClauseWords, casing \in Casings, place \in ClausePlaces :
          /\ fn' = "validate_query_safety"
          /\ arg' = [kind |-> "cypher", cypher |-> SafetyQuery(word, casing, place)]
          /\ out' = ReturnedBool(validate_query_safety(SafetyQuery(word, casing, place)))
    /\ PureFrame

NextSafety == CallValidateQuerySafety \/ PureReturn

SpecSafety == InitSafety /\ [][NextSafety]_vars

(***************************************************************************)
(* _make_serializable                                                      *)
(*                                                                         *)
(* A value carries its Python type, its text (str), its numbers (int, the  *)
(* fields of a date or datetime), and for a list or dict its keys and      *)
(* items.                                                                  *)
(***************************************************************************)
Scalar(t, s, n) == [t |-> t, s |-> s, n |-> n, keys |-> <<>>, items |-> <<>>]
PyInt(n) == Scalar("int", "", <<n>>)
PyStr(s) == Scalar("str", s, <<>>)
PyNone == Scalar("NoneType", "", <<>>)
PyDate(y, m, d) == Scalar("datetime.date", "", <<y, m, d>>)
PyDateTime(y, m, d, hh, mm, ss) == Scalar("datetime.datetime", "", <<y, m, d, hh, mm, ss>>)
Neo4jDate(y, m, d) == Scalar("neo4j.time.Date", "", <<y, m, d>>)
PyList(items) == [t |-> "list", s |-> "", n |-> <<>>, keys |-> <<>>, items |-> items]
PyDict(keys, items) == [t |-> "dict", s |-> "", n |-> <<>>, keys |-> keys, items |-> items]

\* f"{n:02d}"
two_digits(n) == IF n < 10 THEN "0" \o ToString(n) ELSE ToString(n)

\* f"{n:04d}"
four_digits(n) ==
    (IF n < 10 THEN "000" ELSE IF n < 100 THEN "00" ELSE IF n < 1000 THEN "0" ELSE "") \o
    ToString(n)

\* date.isoformat()
iso_date(n) == four_digits(n[1]) \o "-" \o two_digits(n[2]) \o "-" \o two_digits(n[3])

\* str(obj) of a date, a datetime, a neo4j.time.Date
temporal_str(obj) ==
    IF obj.t = "datetime.datetime"
    THEN iso_date(obj.n) \o " " \o two_digits(obj.n[4]) \o ":" \o two_digits(obj.n[5]) \o
         ":" \o two_digits(obj.n[6])
    ELSE iso_date(obj.n)

\* isinstance(obj, (date, datetime)) or obj.__module__.startswith('neo4j.time')
is_temporal(obj) ==
    \/ obj.t \in {"datetime.date", "datetime.datetime"}
    \/ str_startswith(obj.t, "neo4j.time")

\* only the list elements are visited, a dict is returned as it is
RECURSIVE _make_serializable_ListsOnly(_)
_make_serializable_ListsOnly(obj) ==
    IF obj.t = "list"
    THEN PyList([i \in DOMAIN obj.items |-> _make_serializable_ListsOnly(obj.items[i])])
    ELSE IF is_temporal(obj) THEN PyStr(temporal_str(obj))
    ELSE obj

RECURSIVE _make_serializable(_)
_make_serializable(obj) ==
    IF obj.t = "dict"
    THEN PyDict(obj.keys, [i \in DOMAIN obj.items |-> _make_serializable(obj.items[i])])
    ELSE IF obj.t = "list"
    THEN PyList([i \in DOMAIN obj.items |-> _make_serializable(obj.items[i])])
    ELSE IF is_temporal(obj) THEN PyStr(temporal_str(obj))
    ELSE obj

\* the values the serializer is tried on
ScalarValues ==
    {PyInt(7), PyStr("x"), PyStr("2024-01-05"), PyNone, PyDate(2024, 1, 5),
     PyDateTime(2024, 1, 5, 9, 30, 0), Neo4jDate(987, 12, 31)}

InnerValues ==
    ScalarValues \cup
    {PyList(<<x, y>>) : x \in {PyInt(7), PyDate(2024, 1, 5)},
                        y \in {PyStr("x"), PyDateTime(2024, 1, 5, 9, 30, 0), Neo4jDate(987, 12, 31)}}

MidValues == InnerValues \cup {PyDict(<<"when">>, <<x>>) : x \in InnerValues} \cup {PyList(<<>>)}

SerializableArgs ==
    MidValues \cup {PyList(<<x>>) : x \in MidValues} \cup
    {PyDict(<<"a", "b">>, <<x, y>>) : x \in ScalarValues, y \in MidValues}

ReturnedValue(v) == [kind |-> "returned", value |-> v]

InitSerial ==
    /\ impl \in Impls
    /\ input = NoInput
    /\ verdict = "pending"
    /\ tool = "none"
    /\ log = <<>>
    /\ result = NoResult
    /\ InitCacheVars
    /\ InitConnVars
    /\ InitSecVars
    /\ InitPureVars

\* _make_serializable(records)
CallMakeSerializable ==
    /\ fn = "none"
    /\ \E obj \in SerializableArgs :
          /\ fn' = "_make_serializable"
          /\ arg' = [kind |-> "value", value |-> obj, pass |-> 1, origin |-> obj]
          /\ out' = ReturnedValue(_make_serializable(obj))
    /\ PureFrame

\* the function applied to what it returned
CallMakeSerializableAgain ==
    /\ fn = "_make_serializable"
    /\ arg.pass = 1
    /\ arg' = [kind |-> "value", value |-> out.value, pass |-> 2, origin |-> arg.value]
    /\ out' = ReturnedValue(_make_serializable(out.value))
    /\ UNCHANGED fn
    /\ PureFrame

NextSerial == CallMakeSerializable \/ CallMakeSerializableAgain \/ PureReturn

SpecSerial == InitSerial /\ [][NextSerial]_vars

(***************************************************************************)
(* Properties of the validator                                             *)
(***************************************************************************)
\* k occurs in s at position i, letter case ignored
OccursAt(s, k, i) ==
    \A j \in 1..Len(k) : LowChar(CharAt(s, i + j - 1)) = LowChar(CharAt(k, j))

ContainsAnyCase(s, k) == \E i \in 1..(Len(s) - Len(k) + 1) : OccursAt(s, k, i)

OccurrencesAnyCase(s, k) ==
    Cardinality({i \in 1..(Len(s) - Len(k) + 1) : OccursAt(s, k, i)})

ClaimedWriteKeywords ==
    {"CREATE", "MERGE", "SET", "DELETE", "REMOVE", "DROP",
     "DETACH DELETE", "FOREACH", "LOAD CSV"}

ClaimedDenyList ==
    {"apoc.create", "apoc.merge", "apoc.refactor", "apoc.periodic.commit",
     "db.create", "db.drop", "dbms.security", "db.labels", "db.relationshipTypes",
     "db.schema", "db.propertyKeys", "db.constraints", "db.indexes", "apoc.meta"}

HasWriteKeyword(s) == \E k \in ClaimedWriteKeywords : ContainsAnyCase(s, k)

HasDeniedCall(s) ==
    /\ ContainsAnyCase(s, "CALL")
    /\ \E f \in ClaimedDenyList : ContainsAnyCase(s, f)

\* C1: a query that contains one of the write keywords CREATE, MERGE, SET,
\* DELETE, REMOVE, DROP, DETACH DELETE, FOREACH, LOAD CSV as a substring, in any
\* mix of upper and lower case, is rejected by _validate_query_safety.
C1_WriteKeywordRejected ==
    (verdict # "pending" /\ HasWriteKeyword(QueryText(input))) => verdict = "unsafe"

\* C1 witness: a mixed-case LOAD CSV query with no other keyword has been rejected.
C1_Witness ==
    /\ verdict = "unsafe"
    /\ input.casing = "mixed"
    /\ input.reps = 1
    /\ Payloads[input.payload].text = "LOAD CSV FROM 'f.csv' AS row "
    /\ ContainsAnyCase(QueryText(input), "LOAD CSV")
    /\ ~ str_in("LOAD CSV", QueryText(input))

\* C3: a query that contains CALL and a procedure fragment of the deny-list,
\* in any letter case, is rejected by _validate_query_safety.
C3_DeniedCallRejected ==
    (verdict # "pending" /\ HasDeniedCall(QueryText(input))) => verdict = "unsafe"

\* C4 (as stated): a non-empty query made only of MATCH / RETURN / WHERE / WITH /
\* ORDER BY / LIMIT clauses that contains no write keyword is accepted.
C4_ReadOnlyAccepted_AsStated ==
    ( /\ verdict # "pending"
      /\ Payloads[input.payload].kind = "read"
      /\ QueryText(input) # ""
      /\ ~ HasWriteKeyword(QueryText(input)) ) => verdict = "safe"

\* C4 (amended): such a query is accepted provided MATCH occurs at most 10
\* times in it and it does not hold both the text CALL and a deny-list
\* procedure fragment (letter case ignored).
C4_ReadOnlyAccepted ==
    ( /\ verdict # "pending"
      /\ Payloads[input.payload].kind = "read"
      /\ QueryText(input) # ""
      /\ ~ HasWriteKeyword(QueryText(input))
      /\ OccurrencesAnyCase(QueryText(input), "MATCH") <= ComplexityLimit
      /\ ~ HasDeniedCall(QueryText(input)) ) => verdict = "safe"

\* C4 witness: a read-only query whose text holds a deny-list fragment but no
\* CALL (a string literal 'apoc.meta') has been accepted.
C4_Witness ==
    /\ verdict = "safe"
    /\ Payloads[input.payload].text = "WHERE n.src = 'apoc.meta' "
    /\ input.reps = 2
    /\ input.suffix = "RETURN n LIMIT 10"

\* C5: a query with 11 or more occurrences of MATCH (letter case ignored) is
\* rejected whatever else it holds; and the limit is exactly 10: a query with at
\* most 10 occurrences that no other rule rejects is accepted.
C5_ComplexityCeiling ==
    verdict # "pending" =>
        /\ OccurrencesAnyCase(QueryText(input), "MATCH") >= ComplexityLimit + 1
              => verdict = "unsafe"
        /\ ( /\ OccurrencesAnyCase(QueryText(input), "MATCH") <= ComplexityLimit
             /\ QueryText(input) # ""
             /\ ~ HasWriteKeyword(QueryText(input))
             /\ ~ HasDeniedCall(QueryText(input)) ) => verdict = "safe"

\* C5 witness: a query of exactly 11 MATCH clauses and a RETURN, lower case,
\* with no write keyword and no CALL, has been rejected.
C5_Witness ==
    /\ verdict = "unsafe"
    /\ input.casing = "lower"
    /\ OccurrencesAnyCase(QueryText(input), "MATCH") = ComplexityLimit + 1
    /\ ~ HasWriteKeyword(QueryText(input))
    /\ ~ ContainsAnyCase(QueryText(input), "CALL")

(***************************************************************************)
(* Properties of the tool calls                                            *)
(***************************************************************************)
GatedTools ==
    {"execute_cypher_query", "execute_advanced_aggregation", "analyze_graph_paths",
     "calculate_node_centrality", "detect_communities", "find_similar_nodes"}

\* the i-th event of the call sends a query that an earlier event of the same
\* call validated as safe, character for character
SentAfterGate(i) ==
    \E j \in 1..(i - 1) :
        /\ log[j].ev = "validate"
        /\ log[j].ok
        /\ log[j].query = log[i].query

\* C2: within one call of execute_cypher_query, execute_advanced_aggregation or
\* a graph-analytics helper, a query reaches _execute_query only after
\* _validate_query_safety returned true for that exact string.
C2_NoSendBeforeGate ==
    tool \in GatedTools =>
        \A i \in DOMAIN log : log[i].ev = "execute" => SentAfterGate(i)

\* C2 witness: analyze_graph_paths has sent both of its generated queries, each
\* after its own validation.
C2_Witness ==
    /\ tool = "analyze_graph_paths"
    /\ Len(log) = 4
    /\ log[2].ev = "execute" /\ log[4].ev = "execute"
    /\ log[2].query # log[4].query
    /\ SentAfterGate(2) /\ SentAfterGate(4)

IsJsonObjectWith(text, key) ==
    /\ str_startswith(text, "{")
    /\ CharAt(text, Len(text)) = "}"
    /\ str_in("\"" \o key \o "\": \"", text)

Answered(c, op) == pc[c] = "done" /\ ret[c].op = op

SameLabelsAndRelationships(s, t) ==
    s.labels = t.labels /\ s.relationships = t.relationships

\* C7 as the specification states it, every get_neo4j_schema call counted:
\* with non-overlapping calls, check_schema_cache reports cached=false when
\* no get or refresh call came before it, cached=true with the labels and
\* relationship types of the last get_neo4j_schema call when that call came
\* last, and cached=false when refresh_neo4j_schema came last.
C7_CacheFollowsCalls_AsStated ==
    ~overlap =>
        \A c \in Callers : Answered(c, "check") =>
            /\ ret[c].kind = "returned"
            /\ ret[c].seen.kind \in {"fresh", "refreshed"} => ret[c].status = "not_cached"
            /\ ret[c].seen.kind \in {"got", "get_failed"} => ret[c].status = "cached"
            /\ ret[c].seen.kind = "got" =>
                   SameLabelsAndRelationships(ret[c].schema, ret[c].seen.schema)

\* C7, amended: with non-overlapping calls, check_schema_cache reports
\* cached=false when no get or refresh call came before it; cached=true with
\* the labels and relationship types that call returned when the last get
\* or refresh call was a get_neo4j_schema call that returned a schema;
\* cached=false when it was refresh_neo4j_schema, or a get_neo4j_schema call
\* that reported an error or raised.
C7_CacheFollowsCalls ==
    ~overlap =>
        \A c \in Callers : Answered(c, "check") =>
            /\ ret[c].kind = "returned"
            /\ ret[c].seen.kind \in {"fresh", "refreshed", "get_failed"} =>
                   ret[c].status = "not_cached"
            /\ ret[c].seen.kind = "got" =>
                   /\ ret[c].status = "cached"
                   /\ SameLabelsAndRelationships(ret[c].schema, ret[c].seen.schema)

\* one caller was told cached=true after a discovery, the other cached=false
\* after the refresh that followed
C7_Witness ==
    /\ ~overlap
    /\ \E c, d \in Callers :
          /\ Answered(c, "check") /\ ret[c].seen.kind = "got" /\ ret[c].status = "cached"
          /\ ret[c].schema.labels = DbLabels(1)
          /\ Answered(d, "check") /\ ret[d].seen.kind = "refreshed"
          /\ ret[d].status = "not_cached"

RECURSIVE PropertiesFrom(_, _, _)
\* node_properties of a discovery over labels[i..] whose sample queries
\* failed for the labels in failed
PropertiesFrom(labels, i, failed) ==
    IF i > Len(labels) THEN <<>>
    ELSE (IF labels[i] \notin failed /\ HasNodes(1, labels[i])
          THEN <<[label |-> labels[i], keys |-> NodeKeys(labels[i])]>>
          ELSE <<>>) \o PropertiesFrom(labels, i + 1, failed)

\* what one discovery on database content v can store
SingleDiscoveries(v) ==
    { [labels |-> DbLabels(v), relationships |-> DbRelationships(v),
       node_properties |-> PropertiesFrom(DbLabels(v), 1, failed)] :
         failed \in SUBSET Range(DbLabels(v)) }

Quiescent == \A c \in Callers : ~InProgress(c)

\* C8: while the database content is unchanged, whenever every call has
\* returned a populated cache holds exactly the schema_info of the
\* discovery that stored last, and that is a result a single discovery
\* produces; overlapping discoveries never leave a mixture.
C8_LastCompleteDiscovery ==
    (Quiescent /\ dbVersion = 1 /\ _schema_cache.present) =>
        /\ _schema_cache.schema = hist.stored
        /\ _schema_cache.schema \in SingleDiscoveries(1)

\* two get calls, begun on an empty cache, both ran the whole discovery
\* with different sample failures
C8_Witness ==
    /\ calls = 2 /\ overlap /\ dbVersion = 1 /\ _schema_cache.present
    /\ \A c \in Callers :
          Answered(c, "get") /\ ret[c].status = "not_cached" /\ ret[c].queries >= 4
    /\ ret[1].schema # ret[2].schema

\* C9: once a refresh has returned and no get call has begun since, the
\* cache is populated only by a discovery that was in progress when the
\* refresh returned; the witness is the state the claim says is reachable.
C9_OnlyOvertakenDiscoveryRepopulates ==
    (hist.clean /\ _schema_cache.present) => hist.raced

\* a discovery of the old content stored after the refresh had returned,
\* and the next get call returned that schema without any query
C9_Witness ==
    /\ dbVersion = 2 /\ _schema_cache.present
    /\ _schema_cache.schema.labels = DbLabels(1)
    /\ \E c, d \in Callers :
          /\ Answered(d, "get") /\ ret[d].status = "not_cached" /\ ret[d].raced
          /\ Answered(c, "get") /\ ret[c].status = "cached" /\ ret[c].hit_after_refresh
          /\ ret[c].queries = 0
          /\ ret[c].schema = ret[d].schema /\ ret[c].schema = _schema_cache.schema

\* C10: a get_neo4j_schema call one of whose sample queries failed ends by
\* returning, with the cache holding what it returns: the labels, the
\* relationship types, and the property lists of exactly the labels whose
\* sample query gave a node.
C10_SampleFailureIsSkipped ==
    [][\A c \in Callers :
          (pc[c] \in {"get_sample", "get_store"} /\ pc'[c] = "done"
              /\ ret'[c].failed # {}) =>
             /\ ret'[c].kind = "returned" /\ ret'[c].status = "not_cached"
             /\ _schema_cache'.present /\ _schema_cache'.schema = ret'[c].schema
             /\ ret'[c].schema.labels = loc[c].schema_info.labels
             /\ ret'[c].schema.relationships = loc[c].schema_info.relationships
             /\ ret'[c].schema.node_properties =
                    PropertiesFrom(ret'[c].schema.labels, 1, ret'[c].failed)]_vars

\* C11: a get_neo4j_schema call that ran alone ends by returning a string,
\* a schema or a structured error, whichever of its queries failed.
C11_GetSchemaNeverRaises ==
    \A c \in Callers :
        (Answered(c, "get") /\ ~ret[c].raced /\ ~overlap) =>
            /\ ret[c].kind = "returned"
            /\ ret[c].status \in {"cached", "not_cached", "error"}

\* a step of check_schema_cache by caller c
CheckStep(c) ==
    \/ pc[c] = "idle" /\ pc'[c] = "check_read"
    \/ pc[c] \in {"idle", "check_read"} /\ pc'[c] = "done" /\ ret'[c].op = "check"

\* C12: no step of check_schema_cache changes the cache, and the call has
\* issued no query when it ends; a get_neo4j_schema call that finds the
\* cache populated takes the cached branch, and while the entry is there
\* it returns the cached labels, relationships and node properties, having
\* issued no query and leaving the cache as it was.
C12_CacheReadsArePure ==
    [][\A c \in Callers :
          /\ CheckStep(c) =>
                /\ _schema_cache' = _schema_cache
                /\ pc'[c] = "done" => ret'[c].queries = 0
          /\ (pc[c] = "idle" /\ pc'[c] \notin {"idle", "check_read", "refresh_del", "done"}
                /\ _schema_cache.present) =>
                /\ pc'[c] = "get_read"
                /\ _schema_cache' = _schema_cache
          /\ (pc[c] = "get_read" /\ pc'[c] = "done" /\ _schema_cache.present) =>
                /\ ret'[c].kind = "returned" /\ ret'[c].status = "cached"
                /\ ret'[c].schema = _schema_cache.schema
                /\ ret'[c].queries = 0
                /\ _schema_cache' = _schema_cache]_vars

\* one caller got the cached schema from get_neo4j_schema, the other from
\* check_schema_cache, and the cache still holds it
C12_Witness ==
    /\ _schema_cache.present
    /\ Len(_schema_cache.schema.node_properties) > 0
    /\ \E c, d \in Callers :
          /\ Answered(c, "get") /\ ret[c].status = "cached" /\ ret[c].queries = 0
          /\ ret[c].schema = _schema_cache.schema
          /\ Answered(d, "check") /\ ret[d].status = "cached" /\ ret[d].queries = 0
          /\ ret[d].schema = _schema_cache.schema

\* a get_neo4j_schema call of c that began on an empty cache and discovered
Discovered(c) == Answered(c, "get") /\ ret[c].status = "not_cached"

\* C13 as the specification states it: a discovery of N labels has issued
\* exactly N + 2 queries.
C13_QueryCount_AsStated ==
    \A c \in Callers :
        Discovered(c) => ret[c].queries = Len(ret[c].schema.labels) + 2

\* C13, amended: a discovery of N labels has issued the label query, the
\* relationship query and one sample query per label, N + 2 queries, and
\* in tools.py the connection test before them, N + 3 queries.
C13_QueryCount ==
    \A c \in Callers :
        Discovered(c) =>
            ret[c].queries = Len(ret[c].schema.labels) + 2 + (IF impl = "tools" THEN 1 ELSE 0)

\* discoveries of two and of three labels have returned
C13_Witness ==
    \E c, d \in Callers :
        /\ Discovered(c) /\ Len(ret[c].schema.labels) = 2
        /\ Discovered(d) /\ Len(ret[d].schema.labels) = 3

(***************************************************************************)
(* Properties of _execute_query                                            *)
(***************************************************************************)
QDone(c) == qcall[c].pc = "done"

\* C14: when the database call of a query tool fails, at whatever step and
\* for whatever cause, _execute_query has returned a JSON object with an
\* "error" entry, the tool returns that text, and the query was sent to the
\* database at most once.
C14_FailureReportedOnce ==
    \A c \in Callers :
        (QDone(c) /\ qcall[c].outcome = "error") =>
            /\ qcall[c].json.kind = "errordict"
            /\ str_startswith(qcall[c].json.text, "{\"error\": ")
            /\ qcall[c].ret = [kind |-> "returned", text |-> qcall[c].json.text]
            /\ qcall[c].sends <= 1

\* one call failed in the conversion of the records after the query was
\* sent, another before anything was sent
C14_Witness ==
    \E c, d \in Callers :
        /\ QDone(c) /\ qcall[c].cause = "conversion" /\ qcall[c].sends = 1
        /\ qcall[c].tool = "execute_advanced_aggregation"
        /\ QDone(d) /\ qcall[d].cause = "connectivity" /\ qcall[d].sends = 0
        /\ qcall[d].tool = "execute_cypher_query"

\* C15: a driver and its session are open only while the call that opened
\* them is inside its `with` blocks; every call that has left them, by
\* return or by exception, has closed both, and the driver of a call was
\* opened by that call and is the driver of no other call.
C15_ConnectionScopedToCall ==
    /\ \A c \in Callers :
          /\ qcall[c].fresh
          /\ qcall[c].pc \in {"idle", "driver", "except", "reply", "done"} =>
                /\ qcall[c].driver \notin conn.open_drivers
                /\ qcall[c].driver \notin conn.open_sessions
          /\ \A d \in Callers \ {c} :
                qcall[c].driver # 0 => qcall[c].driver # qcall[d].driver
    /\ conn.open_sessions \subseteq conn.open_drivers
    /\ conn.open_drivers \subseteq
          {qcall[c].driver : c \in {d \in Callers : qcall[d].pc \in
                                       {"session", "run", "convert", "exit_session", "exit_driver"}}}

\* three drivers were opened; one call has returned rows, the other failed
\* in the conversion, and nothing is left open
C15_Witness ==
    /\ Cardinality(conn.opened) = 3
    /\ conn.open_drivers = {} /\ conn.open_sessions = {}
    /\ \E c, d \in Callers :
          /\ QDone(c) /\ qcall[c].outcome = "rows" /\ qcall[c].driver # 0
          /\ QDone(d) /\ qcall[d].cause = "conversion" /\ qcall[d].driver # 0

(***************************************************************************)
(* Properties of the intent classifier                                     *)
(***************************************************************************)
\* pattern number i of destructive_patterns matches m
PatternMatches(i, m) == re_search(destructive_patterns[i], str_lower(m))

SomePatternMatches(m) == \E i \in DOMAIN destructive_patterns : PatternMatches(i, m)

\* a safe-context indicator or a safe query pattern occurs somewhere in m
SafeAnywhere(m) ==
    \/ \E i \in DOMAIN safe_indicators : str_in(safe_indicators[i], str_lower(m))
    \/ \E i \in DOMAIN safe_query_patterns : re_search(safe_query_patterns[i], str_lower(m))

HasFixedPhrase(m) ==
    \E i \in DOMAIN destructive_keywords : str_in(destructive_keywords[i], str_lower(m))

\* C16: the classifier answers true exactly when a destructive pattern
\* matches the message and nothing safe occurs anywhere in it, or the
\* message contains a fixed destructive phrase; a fixed phrase makes the
\* message destructive whatever safe context surrounds it.
C16_DestructiveExactly ==
    intent.done =>
        /\ intent.destructive =
              ((SomePatternMatches(message) /\ ~ SafeAnywhere(message))
                  \/ HasFixedPhrase(message))
        /\ HasFixedPhrase(message) => intent.destructive

\* a message with a pattern match, a safe context and a fixed phrase has
\* been classified destructive
C16_Witness ==
    /\ intent.done /\ intent.destructive
    /\ SomePatternMatches(message) /\ SafeAnywhere(message) /\ HasFixedPhrase(message)

\* the verb families of the destructive patterns that match m
Families(m) ==
    {f \in {"create", "update", "delete"} :
        \E i \in DOMAIN destructive_patterns :
            /\ PatternMatches(i, m)
            /\ f = (CASE i \in {1, 2} -> "create"
                      [] i \in {4, 5} -> "update"
                      [] i \in {6, 7} -> "delete"
                      [] OTHER -> "other")}

\* C17: the suggestion for a destructive message is the text of the verb
\* family whose pattern matched (for messages in which the patterns of one
\* family only match), and the generic text when no create/add,
\* update/modify or delete/remove pattern matched and the message holds no
\* fixed phrase.
C17_SuggestionOfMatchedFamily ==
    intent.suggestion # "" =>
        /\ Families(message) = {"create"} => intent.suggestion = CreateSuggestion
        /\ Families(message) = {"update"} => intent.suggestion = UpdateSuggestion
        /\ Families(message) = {"delete"} => intent.suggestion = DeleteSuggestion
        /\ (Families(message) = {} /\ ~ HasFixedPhrase(message)) =>
              intent.suggestion = GenericSuggestion

(***************************************************************************)
(* Properties of the security callback and of a turn                       *)
(***************************************************************************)
\* the text of the latest content of role "user" that carries text
LatestUserText(contents) ==
    LET with_text == {i \in DOMAIN contents :
                         contents[i].role = "user" /\ first_text(contents[i].parts) # ""}
    IN  IF with_text = {} THEN ""
        ELSE first_text(contents[CHOOSE i \in with_text : \A j \in with_text : i >= j].parts)

CallbackRan == turn.callback.kind # "none"

\* C18: whenever the callback has taken a text out of the request, that
\* text is the latest user-authored text of the request, never a text the
\* model wrote.
C18_ClassifiesLatestUserText ==
    (CallbackRan /\ turn.callback.user_message # "") =>
        turn.callback.user_message = LatestUserText(llm_request)

\* C19: for every agent, the inbound text message of a turn has been
\* classified once the model has been invoked in that turn, and in a turn
\* whose inbound message is destructive neither the model nor a tool is
\* invoked and the turn ends with the security message (turns in which the
\* callback itself failed are left aside).
C19_EveryTurnIsScreened ==
    (turn.inbound # "" /\ ~ turn.faulted) =>
        /\ turn.model_calls > 0 => turn.classified
        /\ IntentOfText[turn.inbound].destructive =>
              /\ turn.model_calls = 0 /\ turn.tool_calls = 0
              /\ turn.phase = "ended" =>
                    turn.reply = security_message(IntentOfText[turn.inbound].suggestion)

\* C20: the callback never lets an exception out, and it answers None, so
\* that the turn proceeds, whenever an exception arose inside it or it
\* found no text in the request.
C20_CallbackFailsOpen ==
    /\ turn.callback.kind # "raised"
    /\ (CallbackRan /\ (turn.callback.failed \/ turn.callback.user_message = "")) =>
          /\ turn.callback.kind = "None"
          /\ turn.reply # security_message(CreateSuggestion)
          /\ turn.reply # security_message(UpdateSuggestion)
          /\ turn.reply # security_message(DeleteSuggestion)
          /\ turn.reply # security_message(GenericSuggestion)

\* the classification of a destructive message raised, and the model was
\* invoked
C20_Witness ==
    /\ CallbackRan /\ turn.callback.failed /\ turn.callback.kind = "None"
    /\ turn.callback.user_message = "delete from users"
    /\ turn.model_calls = 1

(***************************************************************************)
(* Properties of the graph-analytics tools                                 *)
(***************************************************************************)
\* the upper hop bounds of the variable-length patterns "*1..<n>]" of a query
HopBounds(query) ==
    {DecimalValue(SubSeq(query, i + 4,
        (CHOOSE j \in (i + 4)..Len(query) :
            /\ CharAt(query, j) = "]"
            /\ \A k \in (i + 4)..(j - 1) : CharAt(query, k) # "]") - 1)) :
       i \in OccurrencesOf(query, "*1..")}

\* C27: whatever max_hops the caller passes, every path pattern of every
\* query analyze_graph_paths generates carries an upper hop bound of at
\* most 5.
C27_HopBoundCapped ==
    tool = "analyze_graph_paths" =>
        \A i \in DOMAIN log :
            /\ HopBounds(log[i].query) # {}
            /\ \A b \in HopBounds(log[i].query) : b <= 5

\* a call asking for 6 hops whose two queries both went to the database
\* with the bound 5
C27_Witness ==
    /\ tool = "analyze_graph_paths"
    /\ input.max_hops = 6
    /\ Cardinality({i \in DOMAIN log : log[i].ev = "execute" /\ HopBounds(log[i].query) = {5}}) = 2

\* what analyze_graph_paths got back for its shortest-path query: the whole
\* reply, or the part of a combined reply before the alternative paths
ShortestPathReply(text) ==
    LET cut == OccurrencesOf(text, "\n\n**Alternative Paths (up to 5):**\n")
        head == "**Shortest Path:**\n"
    IN  IF cut = {} THEN text
        ELSE SubSeq(text, Len(head) + 1, (CHOOSE i \in cut : \A j \in cut : i <= j) - 1)

\* the alternative-paths query was handed to execute_cypher_query
AlternativePathsAsked ==
    \E i \in DOMAIN log : log[i].ev = "validate" /\ str_in("LIMIT 5", log[i].query)

\* C29: analyze_graph_paths hands over the alternative-paths query only
\* when the shortest-path query returned at least one path and max_hops > 1;
\* when the shortest-path query was blocked or failed in the database, its
\* error reply is the whole result.
C29_AlternativesOnlyAfterAPath ==
    tool = "analyze_graph_paths" =>
        /\ AlternativePathsAsked =>
              /\ str_in("\"data\": [\n", ShortestPathReply(result.text))
              /\ Min(input.max_hops, MaxHopsCap) > 1
        /\ str_in("\"error\"", ShortestPathReply(result.text)) =>
              /\ ~ AlternativePathsAsked
              /\ result.text = ShortestPathReply(result.text)

\* the events of the call in which the query containing `mark` took part
EventsOf(kind, mark) ==
    {i \in DOMAIN log : log[i].ev = kind /\ str_in(mark, log[i].query)}

\* C25: detect_communities sends its triangle-based query to the database
\* for every input, and a call whose triangle query found no row goes on to
\* send the density-threshold neighbourhood query and returns what that
\* query gave.
C25_TriangleThenDensity ==
    tool = "detect_communities" =>
        /\ EventsOf("execute", "triangle_count") # {}
        /\ (EventsOf("execute", "triangle_count") # {} /\ EventsOf("validate", "density") = {}) =>
              ~ str_in("No results found", result.text)
        /\ EventsOf("execute", "density") # {} =>
              \A i \in EventsOf("execute", "triangle_count"),
                 j \in EventsOf("execute", "density") : i < j

(***************************************************************************)
(* Properties of the result formatters                                     *)
(***************************************************************************)
\* the lines of a text
Lines(text) == IF text = "" THEN <<>> ELSE str_split(text, "\n")

IsTableRow(line) == Len(line) >= 2 /\ CharAt(line, 1) = "|" /\ CharAt(line, Len(line)) = "|"

\* the cells of a markdown table row, without their padding
Cells(line) ==
    LET parts == str_split(line, "|")
    IN  [j \in 1..(Len(parts) - 2) |-> str_strip(parts[j + 1])]

\* a cell shows a text: the text itself, or its beginning followed by "..."
Shows(cell, text) ==
    \/ cell = text
    \/ /\ Len(cell) >= 3 /\ Len(cell) < Len(text)
       /\ SubSeq(cell, Len(cell) - 2, Len(cell)) = "..."
       /\ SubSeq(cell, 1, Len(cell) - 3) = SubSeq(text, 1, Len(cell) - 3)

\* one "**key**: value" line per field, in the record's key order
KeyValueShape(record, text) ==
    Lines(text) = [i \in DOMAIN record |-> "**" \o record[i].k \o "**: " \o py_str(record[i].v)]

\* a header naming exactly the keys of the first record, a separator, then
\* one row per record in input order, a missing key giving an empty cell
TableShape(results, text) ==
    LET lines == Lines(text)
        keys == dict_keys(results[1])
        n == Len(results)
    IN  /\ Len(lines) >= n + 2
        /\ \A i \in 1..(n + 2) : IsTableRow(lines[i])
        /\ Len(lines) > n + 2 => ~ IsTableRow(lines[n + 3])
        /\ Cells(lines[1]) = keys
        /\ \A i \in 1..n :
              /\ Len(Cells(lines[i + 2])) = Len(keys)
              /\ \A j \in DOMAIN keys :
                    Shows(Cells(lines[i + 2])[j],
                          IF has_key(results[i], keys[j])
                          THEN py_str(dict_get(results[i], keys[j], NoneValue)) ELSE "")

FormattedTable == fn = "_format_results_as_table"

\* C21 as stated: the shape follows from the record count alone.
C21_ShapeByCount_AsStated ==
    FormattedTable =>
        CASE Len(arg.results) = 0 -> out.text = "No results found."
          [] Len(arg.results) = 1 -> KeyValueShape(arg.results[1], out.text)
          [] OTHER                -> TableShape(arg.results, out.text)

\* C21: no record, or a first record without fields, gives 'No results
\* found.'; otherwise one record gives one key-value line per field in key
\* order, and two or more records give a table whose columns are exactly
\* the keys of the first record, with one row per record in input order, an
\* empty cell for a missing key and no column for other keys.
C21_ShapeByCount ==
    FormattedTable =>
        CASE Len(arg.results) = 0    -> out.text = "No results found."
          [] Len(arg.results[1]) = 0 -> out.text = "No results found."
          [] Len(arg.results) = 1    -> KeyValueShape(arg.results[1], out.text)
          [] OTHER                   -> TableShape(arg.results, out.text)

\* three records formatted as a table: the second lacks a key of the first,
\* the third has a key the first does not have
C21_Witness ==
    /\ FormattedTable
    /\ Len(arg.results) = 3
    /\ dict_keys(arg.results[1]) = <<"name", "count">>
    /\ ~ has_key(arg.results[2], "count")
    /\ has_key(arg.results[3], "extra")
    /\ TableShape(arg.results, out.text)
    /\ Cells(Lines(out.text)[4]) = <<"Cy", "">>

\* the value under key is a number in every record
UniformlyNumeric(results, key) ==
    \A i \in DOMAIN results :
        has_key(results[i], key) /\ is_numeric(dict_get(results[i], key, NoneValue))

ColumnSum(results, key) ==
    SumOver([i \in DOMAIN results |-> dict_get(results[i], key, IntValue(0)).n])

\* the lines of the text that announce a total for the column
TotalLines(text, key) ==
    {i \in DOMAIN Lines(text) : str_startswith(Lines(text)[i], "- Total " \o key \o ": ")}

\* C22: for two or more records the output has a 'Total <column>' line,
\* carrying the sum of the column, for exactly the columns whose value is a
\* number in every record, and its last line is the row count.
C22_TotalsOfNumericColumns ==
    (FormattedTable /\ Len(arg.results) >= 2) =>
        LET lines == Lines(out.text)
            keys == dict_keys(arg.results[1])
        IN  /\ \A j \in DOMAIN keys :
                  IF UniformlyNumeric(arg.results, keys[j])
                  THEN \E i \in TotalLines(out.text, keys[j]) :
                          lines[i] = "- Total " \o keys[j] \o ": " \o
                                     format_thousands(ColumnSum(arg.results, keys[j]))
                  ELSE TotalLines(out.text, keys[j]) = {}
            /\ lines[Len(lines)] = "*Total rows: " \o ToString(Len(arg.results)) \o "*"

(***************************************************************************)
(* Properties of agents/query_utils.validate_query_safety                  *)
(***************************************************************************)
\* k stands in s as a word of its own, in any letter case
HasWordAnyCase(s, k) ==
    \E i \in 1..(Len(s) - Len(k) + 1) :
        /\ OccursAt(s, k, i)
        /\ i = 1 \/ ~ IsWordChar(CharAt(s, i - 1))
        /\ i + Len(k) - 1 = Len(s) \/ ~ IsWordChar(CharAt(s, i + Len(k)))

\* C26: validate_query_safety answers False for every query in which
\* CREATE, MERGE, SET, DELETE, REMOVE, DROP or DETACH stands as a word, in
\* any letter case.
C26_WriteWordRejected ==
    (/\ fn = "validate_query_safety"
     /\ \E k \in {"CREATE", "MERGE", "SET", "DELETE", "REMOVE", "DROP", "DETACH"} :
           HasWordAnyCase(arg.cypher, k)) =>
        out.text = "False"

(***************************************************************************)
(* Properties of _make_serializable                                        *)
(***************************************************************************)
\* b is a with every temporal value, at any depth inside lists and dicts,
\* replaced by its string form and nothing else changed
RECURSIVE TemporalsReplaced(_, _)
TemporalsReplaced(a, b) ==
    IF a.t \in {"list", "dict"}
    THEN /\ b.t = a.t
         /\ b.keys = a.keys
         /\ Len(b.items) = Len(a.items)
         /\ \A i \in DOMAIN a.items : TemporalsReplaced(a.items[i], b.items[i])
    ELSE IF a.t \in {"datetime.date", "datetime.datetime", "neo4j.time.Date"}
    THEN b = PyStr(temporal_str(a))
    ELSE b = a

RECURSIVE HasTemporal(_)
HasTemporal(a) ==
    \/ a.t \in {"datetime.date", "datetime.datetime", "neo4j.time.Date"}
    \/ \E i \in DOMAIN a.items : HasTemporal(a.items[i])

\* C28: the result is the argument with every date, datetime and database
\* temporal value replaced by its string form, at any depth inside dicts
\* and lists, and nothing else changed; applied to its own result the
\* function returns that result.
C28_TemporalsBecomeStrings ==
    fn = "_make_serializable" =>
        /\ TemporalsReplaced(arg.value, out.value)
        /\ ~ HasTemporal(out.value)
        /\ arg.pass = 2 =>
              /\ out.value = arg.value
              /\ TemporalsReplaced(arg.origin, out.value)

\* a datetime two levels deep, inside a list inside a dict, came out as its
\* text, and the second application changed nothing
C28_Witness ==
    /\ fn = "_make_serializable"
    /\ arg.pass = 2
    /\ arg.origin = PyDict(<<"a", "b">>,
                           <<PyInt(7), PyDict(<<"when">>,
                                <<PyList(<<PyDate(2024, 1, 5),
                                           PyDateTime(2024, 1, 5, 9, 30, 0)>>)>>)>>)
    /\ out.value = PyDict(<<"a", "b">>,
                          <<PyInt(7), PyDict(<<"when">>,
                               <<PyList(<<PyStr("2024-01-05"),
                                          PyStr("2024-01-05 09:30:00")>>)>>)>>)

(***************************************************************************)
(* Properties of the charts                                                *)
(***************************************************************************)
\* the number of copies of the one-character string c that s begins with
LeadingRun(s, c) ==
    LET stops == {i \in 1..Len(s) : CharAt(s, i) # c}
    IN  IF stops = {} THEN Len(s) ELSE (CHOOSE i \in stops : \A j \in stops : i <= j) - 1

\* a chart row after its label: the blocks, the padding before the single
\* separating space, the value printed at the end
BarField(line) ==
    LET field == SubSeq(line, 19, Len(line))
        blocks == LeadingRun(field, "#")
        rest == SubSeq(field, blocks + 1, Len(field))
        gap == LeadingRun(rest, " ")
    IN  [blocks |-> blocks, padding |-> gap - 1,
         value |-> DecimalValue(str_join("", str_split(SubSeq(rest, gap + 1, Len(rest)), ",")))]

ChartDrawn ==
    /\ fn = "create_bar_chart"
    /\ out.text \notin {"No data to visualize",
                        "Cannot create chart - need label and numeric columns"}

\* C23: in every chart row the bar has floor(40 * value / max_value) blocks
\* and blocks plus padding are exactly 40 wide, and the last line shows the
\* sum of the values of all rows.
C23_BarsAreProportional ==
    ChartDrawn =>
        LET lines == Lines(out.text)
            n == Len(arg.data)
            values == [i \in 1..n |-> BarField(lines[3 + i]).value]
            max_value == MaxOver(<<0>> \o values)
        IN  /\ Len(lines) = n + 5
            /\ \A i \in 1..n :
                  /\ BarField(lines[3 + i]).blocks + BarField(lines[3 + i]).padding = 40
                  /\ max_value > 0 =>
                        BarField(lines[3 + i]).blocks = (40 * values[i]) \div max_value
            /\ lines[n + 5] = "Total           : " \o format_thousands(SumOver(values))


\* C24: given a result text that cannot be decoded as JSON, format_as_chart
\* returns that text unchanged.
C24_UndecodablePassedThrough ==
    (fn = "format_as_chart" /\ json_loads(arg.text).kind = "JSONDecodeError") =>
        (out.kind = "returned" /\ out.text = arg.text)


(***************************************************************************)
(* Properties of the schema cache under interleaved calls                  *)
(***************************************************************************)
\* C30: however check_schema_cache, get_neo4j_schema and
\* refresh_neo4j_schema interleave at their cache reads and writes, every
\* finished call returned a result: none raised because the entry it had
\* found present was removed before its read or delete.
C30_NoCallFailsOnRemovedEntry ==
    [][\A c \in Callers :
          (pc[c] \in {"check_read", "get_read", "refresh_del"} /\ pc'[c] = "done")
              => ret'[c].kind = "returned"]_vars

=============================================================================
